---- MODULE Spec2Model ----
(***************************************************************************)
(* A model of the LaTeX report linter (report/scripts):                    *)
(*   - the citation collector and bibliography reorderer                   *)
(*     (lint_tex_submodules/links_linter.py),                              *)
(*   - the list punctuation rewriter fix_lists                             *)
(*     (lint_tex_submodules/list_puctuation.py),                           *)
(*   - the driver main / apply_rules_to_file (lint_tex.py).                *)
(* Texts are sequences: a fragment is a sequence of citation groups, a     *)
(* bibliography is a sequence of lines, a document given to fix_lists is a *)
(* sequence of lines and a line a sequence of characters.                  *)
(***************************************************************************)
EXTENDS Integers, Sequences, FiniteSets, Bags, TLC

VARIABLES
    ALL_CITATIONS,      \* links_linter.ALL_CITATIONS: set of keys
    FIRST_OCCURRENCE,   \* links_linter.FIRST_OCCURRENCE: ordered dict, as a
                        \* sequence of [key, coord] in insertion order
    lastOp,             \* "none" | "collect" | "reorder": the last call made
    argStem,            \* filename stem given to the last call
    argText,            \* text given to the last call
    retText,            \* text the last call returned
    warnings,           \* bag of the warnings the last call logged
    nCollect,           \* calls of _process_text_file so far
    nReorder,           \* calls of _process_links_file so far
    tex_files,          \* main: the sorted list of discovered paths
    nextFile,           \* main: position of the for loop in tex_files
    global_error,       \* main: the worst outcome so far
    exitStatus,         \* main: -1 while running, then the exit status
    events,             \* what apply_rules_to_file did, call by call
    outcomes,           \* what apply_rules_to_file returned, file by file
    in_text,            \* fix_lists: the text given to the current call
    cur_lines,          \* fix_lists: lines, rewritten in place
    idx,                \* fix_lists: i, the scan position, 0-based
    processed_positions,\* fix_lists: positions the scan will skip
    pass,               \* 1: fix_lists(D); 2: fix_lists(fix_lists(D))
    pcFix,              \* "idle" | "scan" | "returned"
    result1,            \* the text the first call returned
    result2,            \* the text the second call returned
    bibitem_text,       \* validate_entry: the entry text it is given
    result,             \* validate_entry: the dictionary it returns
    pcValidate,         \* "idle" | "called" | "returned"
    paren_path,         \* check_parentheses_comments: filepath
    paren_lines,        \* check_parentheses_comments: lines
    line_no,            \* check_parentheses_comments: lines the loop has taken
    in_equation,        \* check_parentheses_comments: the flag
    paren_warnings,     \* the line numbers check_parentheses_comments warned of
    pcParens            \* "idle" | "scan" | "returned"

citeVars == <<ALL_CITATIONS, FIRST_OCCURRENCE, lastOp, argStem, argText,
              retText, warnings, nCollect, nReorder>>

driverVars == <<tex_files, nextFile, global_error, exitStatus, events, outcomes>>

listVars == <<in_text, cur_lines, idx, processed_positions, pass, pcFix, result1, result2>>

validateVars == <<bibitem_text, result, pcValidate>>

parenVars == <<paren_path, paren_lines, line_no, in_equation, paren_warnings, pcParens>>

vars == <<citeVars, driverVars, listVars, validateVars, parenVars>>

-----------------------------------------------------------------------------
(* Generic helpers *)

SeqsUpTo(S, n) == UNION {[1..k -> S] : k \in 0..n}

Range(s) == {s[i] : i \in DOMAIN s}

RECURSIVE FlattenSeq(_)
FlattenSeq(ss) ==
    IF ss = <<>> THEN <<>> ELSE Head(ss) \o FlattenSeq(Tail(ss))

\* The bag of the elements of a sequence, with their multiplicities.
RECURSIVE BagOfSeq(_)
BagOfSeq(s) ==
    IF s = <<>> THEN EmptyBag
    ELSE SetToBag({Head(s)}) (+) BagOfSeq(Tail(s))

\* Python's list.index for a member, 0-based.
IndexOf(s, x) == (CHOOSE i \in DOMAIN s : s[i] = x /\ \A j \in 1..(i-1) : s[j] # x) - 1

-----------------------------------------------------------------------------
(* Bounds of the citation model *)

MaxCites == 2       \* raw keys written in the \cite groups of one fragment
MaxEntries == 3     \* \bibitem entries of one bibliography text
MaxCollects == 2    \* collector calls in one behaviour
MaxReorders == 1    \* reorderer calls in one behaviour

Keys == {"x", "y", "z"}
Blank == ""         \* an empty item of a \cite group, as in \cite{x,,y}

-----------------------------------------------------------------------------
(* links_linter.py *)

FILE_ORDER ==
    << "abstract.pdf", "intro.pdf", "analytic_part.pdf", "design_part.pdf",
       "tech_part.pdf", "experimental_part.pdf", "conclusion.pdf",
       "additions.pdf" >>

\* Filename stems of the fragments handed to the collector.
Stems == {"intro", "notes", "tech_part.pdf"}

\* file_index of _process_text_file
FileIndex(filename) ==
    IF filename \in Range(FILE_ORDER) THEN IndexOf(FILE_ORDER, filename)
    ELSE Len(FILE_ORDER)

\* A fragment text is the sequence of its \cite{...} groups; a group is the
\* sequence of its comma-separated items, already stripped (Blank: empty).
CiteGroups == SeqsUpTo(Keys \cup {Blank}, MaxCites) \ {<<>>}

CiteTexts ==
    {t \in SeqsUpTo(CiteGroups, MaxCites) : Len(FlattenSeq(t)) <= MaxCites}

\* keys = [k.strip() for k in match.group(1).split(",") if k.strip()]
GroupKeys(g) == SelectSeq(g, LAMBDA k : k # Blank)

\* citations: the keys of every group, in order of appearance
RECURSIVE Citations(_)
Citations(text) ==
    IF text = <<>> THEN <<>>
    ELSE GroupKeys(Head(text)) \o Citations(Tail(text))

DictKeys(d) == [i \in DOMAIN d |-> d[i].key]

DictHas(d, k) == \E i \in DOMAIN d : d[i].key = k

DictGet(d, k) == d[CHOOSE i \in DOMAIN d : d[i].key = k]

\* A store that replaces the coordinate of a key already recorded.
RecordFirst_Overwriting(fo, key, coord) ==
    IF DictHas(fo, key)
    THEN [i \in DOMAIN fo |->
             IF fo[i].key = key THEN [key |-> key, coord |-> coord] ELSE fo[i]]
    ELSE Append(fo, [key |-> key, coord |-> coord])

\* A loop that stores no coordinate at all.
RecordFirst_Never(fo, key, coord) == fo

\* if key not in FIRST_OCCURRENCE: FIRST_OCCURRENCE[key] = (file_index, pos)
RecordFirst(fo, key, coord) ==
    IF DictHas(fo, key) THEN fo
    ELSE Append(fo, [key |-> key, coord |-> coord])

\* The loop of _process_text_file over enumerate(citations), from pos on.
RECURSIVE RecordOccurrences(_, _, _, _)
RecordOccurrences(fo, citations, n, file_index) ==
    IF n > Len(citations) THEN fo
    ELSE RecordOccurrences(RecordFirst(fo, citations[n], <<file_index, n - 1>>),
                           citations, n + 1, file_index)

ProcessTextFile(text, filename) ==
    LET citations == Citations(text) IN
    /\ ALL_CITATIONS' = ALL_CITATIONS \cup Range(citations)
    /\ FIRST_OCCURRENCE' =
           RecordOccurrences(FIRST_OCCURRENCE, citations, 1, FileIndex(filename))
    /\ retText' = text
    /\ warnings' = EmptyBag

\* Lines of a bibliography text.
BeginLine(arg) == [kind |-> "begin", key |-> arg]   \* \begin{thebibliography}{arg}
EndLine == [kind |-> "end", key |-> ""]             \* \end{thebibliography}
BibLine(k) == [kind |-> "bibitem", key |-> k]       \* \bibitem{k}
BadBibLine == [kind |-> "badbibitem", key |-> ""]   \* \bibitem{ with no closing brace
TextLine(id) == [kind |-> "text", key |-> id]       \* any other line
VspaceLine == [kind |-> "vspace", key |-> ""]       \* \t\vspace{-1\baselineskip}
EmptyLine == [kind |-> "empty", key |-> ""]

\* The entries of a bibliography body: \bibitem{k} and one line of text each.
RECURSIVE BibBody(_, _)
BibBody(ks, n) ==
    IF n > Len(ks) THEN <<>>
    ELSE <<BibLine(ks[n]), TextLine(ToString(n))>> \o BibBody(ks, n + 1)

\* Well-formed bibliographies of up to MaxEntries entries, and short texts
\* that lack the begin or the end marker of the environment.
BibTexts ==
    { <<TextLine("pre"), BeginLine("9")>> \o BibBody(ks, 1)
          \o <<EndLine, TextLine("post")>> : ks \in SeqsUpTo(Keys, MaxEntries) }
    \cup { <<TextLine("pre")>> \o BibBody(ks, 1) \o <<EndLine>> : ks \in SeqsUpTo(Keys, 1) }
    \cup { <<BeginLine("9")>> \o BibBody(ks, 1) : ks \in SeqsUpTo(Keys, 1) }

\* text.find(marker), by lines: the first line holding the marker, 0 if none.
FindLine(text, kind) ==
    IF \E i \in DOMAIN text : text[i].kind = kind
    THEN CHOOSE i \in DOMAIN text :
             text[i].kind = kind /\ \A j \in 1..(i-1) : text[j].kind # kind
    ELSE 0

\* bib_items[current_key] = "\n".join(buffer)
DictPut(d, k, v) ==
    IF DictHas(d, k)
    THEN [i \in DOMAIN d |-> IF d[i].key = k THEN [key |-> k, text |-> v] ELSE d[i]]
    ELSE Append(d, [key |-> k, text |-> v])

NoKey == [some |-> FALSE, key |-> ""]
SomeKey(k) == [some |-> TRUE, key |-> k]

\* The save of the previous element, and of the last one after the loop.
SaveEntry(st) ==
    IF st.current_key.some /\ st.buffer # <<>>
    THEN [st EXCEPT !.bib_items = DictPut(@, st.current_key.key, st.buffer),
                    !.bib_order = Append(@, st.current_key.key)]
    ELSE st

\* The loop over the lines of the environment, then the save of the last entry.
RECURSIVE ParseEntries(_, _, _)
ParseEntries(lines, n, st) ==
    IF n > Len(lines) THEN SaveEntry(st)
    ELSE LET line == lines[n] IN
         IF line.kind \in {"bibitem", "badbibitem"}
         THEN LET saved == SaveEntry(st)
                  st1 == IF st.current_key.some /\ st.buffer # <<>>
                         THEN [saved EXCEPT !.buffer = <<>>] ELSE saved
              IN IF line.kind = "bibitem"
                 THEN ParseEntries(lines, n + 1,
                          [st1 EXCEPT !.current_key = SomeKey(line.key),
                                      !.buffer = Append(@, line)])
                 ELSE ParseEntries(lines, n + 1,
                          [st1 EXCEPT !.current_key = NoKey, !.buffer = <<>>])
         ELSE IF st.current_key.some
         THEN ParseEntries(lines, n + 1, [st EXCEPT !.buffer = Append(@, line)])
         ELSE ParseEntries(lines, n + 1, st)

ParseInit == [bib_items |-> <<>>, bib_order |-> <<>>,
              current_key |-> NoKey, buffer |-> <<>>]

\* env_content = text[env_start:env_end]
EnvContent(text, env_start, env_end) == SubSeq(text, env_start, env_end - 1)

\* missing_in_links: the keys of ALL_CITATIONS that are no entry (a set)
MissingInLinks(bib_items) ==
    {k \in ALL_CITATIONS : ~DictHas(bib_items, k)}

\* Every key of bib_items, cited or not.
MissingInText_Unfiltered(bib_items) == DictKeys(bib_items)

\* missing_in_text: the keys of bib_items, in the dict's order, never cited
MissingInText(bib_items) ==
    SelectSeq(DictKeys(bib_items), LAMBDA k : k \notin ALL_CITATIONS)

CrossWarnings(bib_items) ==
    SetToBag({[kind |-> "not_in_links", key |-> k] : k \in MissingInLinks(bib_items)})
    (+) BagOfSeq([i \in DOMAIN MissingInText(bib_items) |->
                     [kind |-> "not_in_text", key |-> MissingInText(bib_items)[i]]])

\* The cited keys of bib_items, in the order of the bibliography.
OrderedKeys_BibliographyOrder(bib_items) ==
    SelectSeq(DictKeys(bib_items), LAMBDA k : DictHas(FIRST_OCCURRENCE, k))

\* ordered_keys = [k for k in FIRST_OCCURRENCE if k in bib_items]
OrderedKeys(bib_items) ==
    SelectSeq(DictKeys(FIRST_OCCURRENCE), LAMBDA k : DictHas(bib_items, k))

\* remaining_keys = [k for k in bib_order if k not in ordered_keys]
RemainingKeys(bib_order, ordered_keys) ==
    SelectSeq(bib_order, LAMBDA k : k \notin Range(ordered_keys))

\* new_env_lines joined: the text of every key of new_order
RECURSIVE EntryLines(_, _)
EntryLines(bib_items, new_order) ==
    IF new_order = <<>> THEN <<>>
    ELSE DictGet(bib_items, Head(new_order)).text
             \o EntryLines(bib_items, Tail(new_order))

\* A new text that is the rebuilt environment alone.
Rebuild_EnvironmentOnly(text, env_start, env_end, bib_items, new_order) ==
    <<BeginLine(""), VspaceLine, EmptyLine>>
        \o EntryLines(bib_items, new_order)
        \o <<EmptyLine, EndLine>>

\* new_text: text[:env_start] + full_env_content + text[env_end + len(end):]
Rebuild(text, env_start, env_end, bib_items, new_order) ==
    SubSeq(text, 1, env_start - 1)
        \o <<BeginLine(""), VspaceLine, EmptyLine>>
        \o EntryLines(bib_items, new_order)
        \o <<EmptyLine, EndLine>>
        \o SubSeq(text, env_end + 1, Len(text))

\* Whether the call reaches the two clear() calls at its end.
ClearsState(found, changed) == found /\ changed

ProcessLinksFile(text) ==
    LET env_start == FindLine(text, "begin")
        env_end == FindLine(text, "end")
        found == env_start # 0 /\ env_end # 0
        parsed == ParseEntries(EnvContent(text, env_start, env_end), 1, ParseInit)
        bib_items == parsed.bib_items
        bib_order == parsed.bib_order
        ordered_keys == OrderedKeys(bib_items)
        new_order == ordered_keys \o RemainingKeys(bib_order, ordered_keys)
        changed == new_order # bib_order
    IN
    /\ warnings' = IF ~found THEN SetToBag({[kind |-> "no_env", key |-> ""]})
                   ELSE CrossWarnings(bib_items)
    /\ retText' = IF found /\ changed
                  THEN Rebuild(text, env_start, env_end, bib_items, new_order)
                  ELSE text
    /\ IF ClearsState(found, changed)
       THEN ALL_CITATIONS' = {} /\ FIRST_OCCURRENCE' = <<>>
       ELSE UNCHANGED <<ALL_CITATIONS, FIRST_OCCURRENCE>>

-----------------------------------------------------------------------------
(* The citation state machine: any interleaving of collector and reorderer *)

CiteStart ==
    /\ ALL_CITATIONS = {}
    /\ FIRST_OCCURRENCE = <<>>
    /\ lastOp = "none"
    /\ argStem = ""
    /\ argText = <<>>
    /\ retText = <<>>
    /\ warnings = EmptyBag
    /\ nCollect = 0
    /\ nReorder = 0

DriverIdle ==
    /\ tex_files = <<>>
    /\ nextFile = 0
    /\ global_error = 0
    /\ exitStatus = -1
    /\ events = <<>>
    /\ outcomes = <<>>

ListsIdle ==
    /\ in_text = << <<>> >>
    /\ cur_lines = <<>>
    /\ idx = 0
    /\ processed_positions = {}
    /\ pass = 0
    /\ pcFix = "idle"
    /\ result1 = << <<>> >>
    /\ result2 = << <<>> >>

\* validate_entry has not been called.
ValidateIdle ==
    /\ bibitem_text = <<>>
    /\ result = [called |-> FALSE]
    /\ pcValidate = "idle"

\* check_parentheses_comments has not been called.
ParensIdle ==
    /\ paren_path = ""
    /\ paren_lines = <<>>
    /\ line_no = 0
    /\ in_equation = FALSE
    /\ paren_warnings = {}
    /\ pcParens = "idle"

CiteInit == CiteStart /\ DriverIdle /\ ListsIdle /\ ValidateIdle /\ ParensIdle

\* process_bibliography_order(text, filepath) with filename != "links"
Collect ==
    /\ nCollect < MaxCollects
    /\ \E filename \in Stems, text \in CiteTexts :
          /\ ProcessTextFile(text, filename)
          /\ argStem' = filename
          /\ argText' = text
    /\ lastOp' = "collect"
    /\ nCollect' = nCollect + 1
    /\ UNCHANGED <<nReorder, driverVars, listVars, validateVars, parenVars>>

\* process_bibliography_order(text, filepath) with filename = "links"
Reorder ==
    /\ nReorder < MaxReorders
    /\ \E text \in BibTexts :
          /\ ProcessLinksFile(text)
          /\ argText' = text
    /\ argStem' = "links"
    /\ lastOp' = "reorder"
    /\ nReorder' = nReorder + 1
    /\ UNCHANGED <<nCollect, driverVars, listVars, validateVars, parenVars>>

CiteNext == Collect \/ Reorder

SpecCite == CiteInit /\ [][CiteNext]_vars

-----------------------------------------------------------------------------
(* list_puctuation.py: characters, lines and texts                         *)
(* A line is a sequence of characters.  The markers the code looks for as  *)
(* whole strings are single symbols.  Cyrillic letters are written in      *)
(* Latin transliteration: "gde" is the word the code's regex looks for at  *)
(* the end of the context line, and "ris", "t.d" are two of the            *)
(* alternatives of ABBREV_EXCEPTIONS.                                      *)

Item == "\\item"
BeginItemize == "\\begin{itemize}"
BeginEnumerate == "\\begin{enumerate}"
EndItemize == "\\end{itemize}"
EndEnumerate == "\\end{enumerate}"
EndOther == "\\end{center}"
Alpha == "\\alpha"
Ignore == "% #lint-ignore"
Backslash == "\\"

\* Symbols that start with a backslash followed by a letter.
CommandSymbols ==
    {Item, BeginItemize, BeginEnumerate, EndItemize, EndEnumerate, EndOther,
     Alpha}

LowerLetters == <<"a", "b", "d", "e", "g", "i", "r", "s", "t">>
UpperLetters == <<"A", "B", "D", "E", "G", "I", "R", "S", "T">>

IsLower(c) == c \in Range(LowerLetters)
IsUpper(c) == c \in Range(UpperLetters)
IsAlpha(c) == IsLower(c) \/ IsUpper(c)
IsSpace(c) == c = " "

\* str.lower / str.upper on one character
ToLower(c) == IF IsUpper(c) THEN LowerLetters[IndexOf(UpperLetters, c) + 1] ELSE c
ToUpper(c) == IF IsLower(c) THEN UpperLetters[IndexOf(LowerLetters, c) + 1] ELSE c

LowerStr(s) == [n \in DOMAIN s |-> ToLower(s[n])]

RECURSIVE LStripStr(_)
LStripStr(s) ==
    IF s # <<>> /\ IsSpace(Head(s)) THEN LStripStr(Tail(s)) ELSE s

RECURSIVE RStripStr(_)
RStripStr(s) ==
    IF s # <<>> /\ IsSpace(s[Len(s)]) THEN RStripStr(SubSeq(s, 1, Len(s) - 1)) ELSE s

StripStr(s) == LStripStr(RStripStr(s))

StartsWith(s, p) == Len(s) >= Len(p) /\ SubSeq(s, 1, Len(p)) = p
EndsWith(s, p) == Len(s) >= Len(p) /\ SubSeq(s, Len(s) - Len(p) + 1, Len(s)) = p
Contains(s, c) == \E n \in DOMAIN s : s[n] = c

\* str.find of a one-symbol needle: 0-based position, -1 if absent
FindSym(s, c) == IF Contains(s, c) THEN IndexOf(s, c) ELSE -1

\* line[:n] and line[n:] with 0-based n
Prefix(s, n) == SubSeq(s, 1, n)
Suffix(s, n) == SubSeq(s, n + 1, Len(s))

\* A text is the sequence of the pieces between its "\n" characters, so a
\* text that ends in "\n" has an empty last piece and "" is <<<<>>>>.
SplitLines(text) ==
    IF text[Len(text)] = <<>> THEN SubSeq(text, 1, Len(text) - 1) ELSE text

\* "\n".join(lines)
JoinLines(ls) == IF ls = <<>> THEN << <<>> >> ELSE ls

\* ABBREV_EXCEPTIONS.search(s): s ends in an alternative, then an optional "."
AbbrevAlternatives ==
    { <<"t", ".", "d">>, <<"r", "i", "s">>, <<"r", "i", "s", ".">> }

IsAbbreviation(s) ==
    \E w \in AbbrevAlternatives : EndsWith(s, w) \/ EndsWith(s, w \o <<".">>)

\* MATH_END_REGEX.search(s)
EndsInMath(s) == RStripStr(s) # <<>> /\ RStripStr(s)[Len(RStripStr(s))] = "$"

LastOf(s) == s[Len(s)]

\* PUNCTUATION_REGEX.search(s)
EndsWithPunctuation(s) ==
    RStripStr(s) # <<>> /\ LastOf(RStripStr(s)) \in {".", "!", "?", ";", ":"}

\* re.search(r"[.!?]\s*$", s)
EndsWithStop(s) ==
    RStripStr(s) # <<>> /\ LastOf(RStripStr(s)) \in {".", "!", "?"}

\* re.search(r"\bgde\b\s*$", s, re.IGNORECASE)
EndsWithGde(s) ==
    LET t == RStripStr(s) IN
    /\ EndsWith(LowerStr(t), <<"g", "d", "e">>)
    /\ (Len(t) = 3 \/ ~IsAlpha(t[Len(t) - 3]))

\* re.match(r"^\s*(\\[a-zA-Z]+|\$)", s) or re.search(r"^\s*\\label", s)
StartsWithCommandOrMath(s) ==
    LET t == LStripStr(s) IN
    /\ t # <<>>
    /\ \/ t[1] = "$"
       \/ t[1] \in CommandSymbols
       \/ (t[1] = Backslash /\ Len(t) >= 2 /\ IsAlpha(t[2]))

\* LATEX_MATH_START_REGEX.match(s)
StartsWithLatex(s) ==
    /\ s # <<>>
    /\ \/ s[1] = "$"
       \/ s[1] \in CommandSymbols
       \/ (s[1] = Backslash /\ Len(s) >= 2)

\* The leading whitespace of a line: line[: len(line) - len(line.lstrip())]
Indent(s) == Prefix(s, Len(s) - Len(LStripStr(s)))

HasIgnore(line) == Contains(line, Ignore)

\* stripped_line.startswith(r"\begin{itemize}") or ...startswith(r"\begin{enumerate}")
IsListBegin(line) ==
    StripStr(line) # <<>> /\ StripStr(line)[1] \in {BeginItemize, BeginEnumerate}

\* env_type = "itemize" if "itemize" in stripped_line else "enumerate"
EnvType(line) ==
    IF Contains(line, BeginItemize) \/ Contains(line, EndItemize)
    THEN "itemize" ELSE "enumerate"

EndMarker(env_type) == IF env_type = "itemize" THEN EndItemize ELSE EndEnumerate

SearchWindow == 200     \* search_limit = min(i + 200, len(lines))
ContextWindow == 5      \* up to 5 non-empty lines before the list
SampleLength == 100     \* sample_text = new_after_item[:100]

Min(a, b) == IF a <= b THEN a ELSE b

\* Positions are 0-based as in the code: line n of ls is ls[n + 1].
LineAt(ls, n) == ls[n + 1]

\* end_idx: the first exact end marker of the list's kind within the search
\* window, else the first line that starts with "\end{", else -1
FindEnd(ls, start_idx) ==
    LET search_limit == Min(start_idx + SearchWindow, Len(ls))
        window == (start_idx + 1)..(search_limit - 1)
        marker == EndMarker(EnvType(StripStr(LineAt(ls, start_idx))))
        exact == {j \in window : StripStr(LineAt(ls, j)) = <<marker>>}
        anyEnd == {j \in window :
                      /\ StripStr(LineAt(ls, j)) # <<>>
                      /\ StripStr(LineAt(ls, j))[1]
                             \in {EndItemize, EndEnumerate, EndOther}}
    IN  IF exact # {} THEN CHOOSE j \in exact : \A k \in exact : j <= k
        ELSE IF anyEnd # {} THEN CHOOSE j \in anyEnd : \A k \in anyEnd : j <= k
        ELSE -1

\* context_lines: the positions of the nearest non-empty lines before the
\* list, at most ContextWindow of them, nearest last
NonEmptyBefore(ls, start_idx) ==
    {p \in 0..(start_idx - 1) : StripStr(LineAt(ls, p)) # <<>>}

ContextPositions(ls, start_idx) ==
    {p \in NonEmptyBefore(ls, start_idx) :
        Cardinality({q \in NonEmptyBefore(ls, start_idx) : q > p}) < ContextWindow}

NearestContextIdx(ls, start_idx) ==
    CHOOSE p \in ContextPositions(ls, start_idx) :
        \A q \in ContextPositions(ls, start_idx) : q <= p

\* items: the positions between start and end whose line holds \item
ItemPositions(ls, start_idx, end_idx) ==
    {j \in (start_idx + 1)..(end_idx - 1) : Contains(LineAt(ls, j), Item)}

\* The scan of one item's text for a colon outside commands and math.
RECURSIVE ColonScan(_, _, _, _)
ColonScan(after_item, pos, in_command, in_math) ==
    IF pos > Len(after_item) THEN FALSE
    ELSE LET char == after_item[pos]
             math1 == IF char = "$" THEN ~in_math ELSE in_math
             startsCmd == \/ char \in CommandSymbols
                          \/ /\ char = Backslash
                             /\ pos + 1 <= Len(after_item)
                             /\ IsAlpha(after_item[pos + 1])
             cmd1 == IF startsCmd THEN TRUE
                     ELSE IF in_command /\ char \in {"{", "}", "[", "]", "(", ")", " "}
                     THEN FALSE
                     ELSE in_command
             hit == /\ char = ":"
                    /\ ~cmd1
                    /\ ~math1
                    /\ pos + 1 <= Len(after_item)
                    /\ after_item[pos + 1] # "$"
                    /\ after_item[pos + 1] \notin (CommandSymbols \cup {Backslash})
         IN  hit \/ ColonScan(after_item, pos + 1, cmd1, math1)

\* has_colon_in_items
HasColonInItems(ls, positions) ==
    \E j \in positions :
        /\ ~HasIgnore(LineAt(ls, j))
        /\ ColonScan(Suffix(LineAt(ls, j), FindSym(LineAt(ls, j), Item) + 1),
                     1, FALSE, FALSE)

\* mode_colon, after the override for lists that follow "gde"
ModeColon(has_colon_in_items, nearest_context_line) ==
    LET stripped_nearest == StripStr(nearest_context_line)
        ends_with_colon == stripped_nearest # <<>> /\ LastOf(stripped_nearest) = ":"
        is_after_gde == EndsWithGde(stripped_nearest)
    IN  /\ ~has_colon_in_items
        /\ ends_with_colon
        /\ ~HasIgnore(nearest_context_line)
        /\ ~is_after_gde

\* Step 7: the context line as rewritten (or left) before the list
FixContextLine(nearest_context_line, mode_colon, is_after_gde) ==
    LET stripped_ctx == RStripStr(nearest_context_line)
        indent == Indent(nearest_context_line)
        body == SubSeq(stripped_ctx, 1, Len(stripped_ctx) - 1)
    IN  IF HasIgnore(nearest_context_line) THEN nearest_context_line
        ELSE IF stripped_ctx # <<>> /\ LastOf(stripped_ctx) = ":"
        THEN IF mode_colon THEN nearest_context_line
             ELSE IF ~EndsWithStop(body)
             THEN indent \o RStripStr(body) \o <<".">>
             ELSE nearest_context_line
        ELSE IF is_after_gde THEN nearest_context_line
        ELSE IF ~EndsWithPunctuation(stripped_ctx)
        THEN IF ~StartsWithCommandOrMath(stripped_ctx)
             THEN indent \o stripped_ctx \o <<".">>
             ELSE nearest_context_line
        ELSE nearest_context_line

\* The characters that end the first word of an item.
WordDelimiters ==
    {" ", ",", ".", ";", ":", "!", "?", "(", "[", "{", "/", Backslash, "\"", "'"}
        \cup CommandSymbols

FirstWordEnd(sample_text) ==
    LET hits == {p \in DOMAIN sample_text : sample_text[p] \in WordDelimiters}
    IN  IF hits = {} THEN Len(sample_text)
        ELSE (CHOOSE p \in hits : \A q \in hits : p <= q) - 1

\* should_process_first_letter
ShouldProcessFirstLetter(new_after_item) ==
    LET sample_text == Prefix(new_after_item, Min(SampleLength, Len(new_after_item)))
        first_word == StripStr(Prefix(sample_text, FirstWordEnd(sample_text)))
        uppercase_count == Cardinality({p \in DOMAIN first_word : IsUpper(first_word[p])})
    IN  /\ ~StartsWithLatex(new_after_item)
        /\ ~(uppercase_count > 1)
        /\ ~(Len(first_word) = 1 /\ uppercase_count = 1)

\* first_alpha_idx, 0-based, -1 if the text has no letter
FirstAlphaIdx(s) ==
    LET hits == {p \in DOMAIN s : IsAlpha(s[p])}
    IN  IF hits = {} THEN -1 ELSE (CHOOSE p \in hits : \A q \in hits : p <= q) - 1

\* The lead letter of the item made lowercase (colon mode) or uppercase.
FixFirstLetter(after_item, mode_colon, is_after_gde) ==
    LET k == FirstAlphaIdx(after_item) IN
    IF ShouldProcessFirstLetter(after_item) /\ Len(after_item) > 0
       /\ k # -1 /\ k < Len(after_item) - 1
    THEN IF mode_colon /\ ~is_after_gde
         THEN [after_item EXCEPT ![k + 1] = ToLower(@)]
         ELSE [after_item EXCEPT ![k + 1] = ToUpper(@)]
    ELSE after_item

\* should_remove_last_punct
ShouldRemoveLastPunct(stripped_after) ==
    /\ LastOf(stripped_after) \in {".", ",", ":", ";"}
    /\ ~IsAbbreviation(LowerStr(stripped_after))
    /\ ~EndsInMath(stripped_after)

\* new_ending
NewEnding(is_after_gde, mode_colon, is_last) ==
    IF is_after_gde /\ ~is_last THEN ";"
    ELSE IF mode_colon THEN (IF is_last THEN "." ELSE ";")
    ELSE "."

\* The text of the item with its ending rewritten.
FixEnding(new_after_item, mode_colon, is_after_gde, is_last) ==
    LET stripped_after == RStripStr(new_after_item) IN
    IF stripped_after = <<>> THEN <<>>
    ELSE (IF ShouldRemoveLastPunct(stripped_after)
          THEN RStripStr(SubSeq(stripped_after, 1, Len(stripped_after) - 1))
          ELSE stripped_after)
         \o <<NewEnding(is_after_gde, mode_colon, is_last)>>

\* A step 8 that skips no item.
SkipsItem_Never(original_line) == FALSE

\* Whether step 8 skips the item: it carries the ignore annotation
SkipsItem(original_line) == HasIgnore(original_line)

\* Step 8 for one item: new_line_content, or the line itself when skipped
FixItemLine(original_line, mode_colon, is_after_gde, is_last) ==
    LET item_pos == FindSym(original_line, Item)
        before_item == Prefix(original_line, item_pos)
        after_item == LStripStr(Suffix(original_line, item_pos + 1))
    IN  IF SkipsItem(original_line) THEN original_line
        ELSE IF StripStr(after_item) = <<>> THEN original_line
        ELSE before_item \o <<Item, " ">>
                 \o FixEnding(FixFirstLetter(after_item, mode_colon, is_after_gde),
                              mode_colon, is_after_gde, is_last)

\* Steps 3 to 8 for the block start_idx..end_idx: the lines after the rewrite
FixBlock(ls, start_idx, end_idx) ==
    LET ctx_idx == NearestContextIdx(ls, start_idx)
        nearest_context_line == LineAt(ls, ctx_idx)
        positions == ItemPositions(ls, start_idx, end_idx)
        last_pos == CHOOSE j \in positions : \A k \in positions : k <= j
        is_after_gde == EndsWithGde(StripStr(nearest_context_line))
        mode_colon == ModeColon(HasColonInItems(ls, positions), nearest_context_line)
    IN  [n \in DOMAIN ls |->
            IF n - 1 = ctx_idx
            THEN FixContextLine(nearest_context_line, mode_colon, is_after_gde)
            ELSE IF n - 1 \in positions
            THEN FixItemLine(ls[n], mode_colon, is_after_gde, n - 1 = last_pos)
            ELSE ls[n]]

-----------------------------------------------------------------------------
(* fix_lists as a state machine: one action for each turn of its loop *)

MaxItems == 2       \* items of one list block in the documents

\* Lines the documents are built from.
TextX == <<"B", "b", ".">>
CtxPlain == <<"A", "a">>
CtxColon == <<"A", "a", ":">>
CtxDot == <<"A", "a", ".">>
CtxGde == <<"a", " ", "g", "d", "e">>
CtxColonIgnored == <<"A", "a", ":", " ", Ignore>>
CtxIndented == <<" ", "A", "a", ":">>

ItemPlain == <<Item, " ", "a", "b">>
ItemUpperDot == <<Item, " ", "A", "b", ".">>
ItemAbbrev == <<Item, " ", "a", " ", "r", "i", "s", ".">>
ItemMath == <<Item, " ", "a", " ", "$", "a", "$">>
ItemIgnored == <<Item, " ", "A", "b", " ", Ignore>>
ItemColon == <<Item, " ", "a", ":", " ", "b">>
ItemEmpty == <<Item>>
ItemColonLast == <<Item, " ", "a", "b", ":">>
ItemBang == <<Item, " ", "a", "b", "!">>
ItemLetter == <<Item, " ", "a">>
ItemAcronym == <<Item, " ", "A", "B", " ", "a">>
ItemSymbol == <<Item, " ", "A", " ", "b">>
ItemCommand == <<Item, " ", Alpha, " ", "a", "b">>
ItemMathStart == <<Item, " ", "$", "a", "$", " ", "a", "b">>

Prefixes == { <<>>, <<TextX>> }
Contexts == {CtxPlain, CtxColon, CtxDot, CtxGde, CtxColonIgnored, CtxIndented}
ItemLines == {ItemPlain, ItemUpperDot, ItemAbbrev, ItemMath, ItemIgnored,
              ItemColon, ItemEmpty, ItemColonLast, ItemBang, ItemLetter,
              ItemAcronym, ItemSymbol, ItemCommand, ItemMathStart}
Kinds == {"itemize", "enumerate"}

BeginLineOf(kind) ==
    IF kind = "itemize" THEN <<BeginItemize>> ELSE <<BeginEnumerate>>
EndLineOf(kind) == <<EndMarker(kind)>>

\* One list after a context line, at an even or an odd position.
FlatDocs ==
    { p \o <<c, BeginLineOf(k)>> \o its \o <<EndLineOf(k)>> :
        p \in Prefixes, c \in Contexts, k \in Kinds,
        its \in SeqsUpTo(ItemLines, MaxItems) \ {<<>>} }

\* A list inside a list: the items before the inner list are its context.
NestedDocs ==
    { p \o <<CtxColon, BeginLineOf(k1)>> \o pre
        \o <<BeginLineOf(k2)>> \o its \o <<EndLineOf(k2)>> \o post \o <<EndLineOf(k1)>> :
        p \in Prefixes, k1 \in Kinds, k2 \in Kinds,
        pre \in SeqsUpTo({ItemPlain, ItemIgnored}, MaxItems) \ {<<>>},
        its \in SeqsUpTo({ItemPlain, ItemIgnored}, MaxItems) \ {<<>>},
        post \in SeqsUpTo({ItemPlain}, 1) }

\* A list with no context, with no item, with no end marker.
OddDocs ==
    { <<BeginLineOf(k), ItemPlain, EndLineOf(k)>> : k \in Kinds }
    \cup { <<TextX, CtxColon, BeginLineOf(k), EndLineOf(k)>> : k \in Kinds }
    \cup { <<TextX, CtxColon, BeginLineOf(k), ItemPlain>> : k \in Kinds }

\* A list closed by the end marker of another environment only.
OtherKind(kind) == IF kind = "itemize" THEN "enumerate" ELSE "itemize"

ForeignEndDocs ==
    { p \o <<CtxColon, BeginLineOf(k)>> \o its
        \o <<IF foreign THEN <<EndOther>> ELSE EndLineOf(OtherKind(k))>> :
        p \in Prefixes, k \in Kinds, foreign \in BOOLEAN,
        its \in SeqsUpTo({ItemPlain}, MaxItems) \ {<<>>} }

\* Two lists, the second beginning on the line after the end of the first.
AdjacentDocs ==
    { p \o <<c, BeginLineOf(k1)>> \o its1 \o <<EndLineOf(k1), BeginLineOf(k2)>>
        \o its2 \o <<EndLineOf(k2)>> :
        p \in Prefixes, c \in {CtxPlain, CtxColon}, k1 \in Kinds, k2 \in Kinds,
        its1 \in SeqsUpTo({ItemPlain}, MaxItems) \ {<<>>},
        its2 \in SeqsUpTo({ItemPlain}, MaxItems) \ {<<>>} }

\* Texts without a list, with and without a final line terminator.
PlainDocs ==
    { ls \o tail : ls \in SeqsUpTo({TextX, CtxPlain, ItemPlain}, MaxItems) \ {<<>>},
                    tail \in { <<>>, << <<>> >> } }

ListDocs ==
    FlatDocs \cup NestedDocs \cup OddDocs \cup ForeignEndDocs \cup AdjacentDocs
        \cup PlainDocs

ListsInit ==
    /\ CiteStart
    /\ DriverIdle
    /\ ValidateIdle
    /\ ParensIdle
    /\ in_text \in ListDocs
    /\ cur_lines = SplitLines(in_text)
    /\ idx = 0
    /\ processed_positions = {}
    /\ pass = 1
    /\ pcFix = "scan"
    /\ result1 = << <<>> >>
    /\ result2 = << <<>> >>

Scanning == pcFix = "scan" /\ idx < Len(cur_lines)

\* if i in processed_positions: i += 1; continue
ScanSkip ==
    /\ Scanning
    /\ idx \in processed_positions
    /\ idx' = idx + 1
    /\ UNCHANGED <<in_text, cur_lines, processed_positions, pass, pcFix, result1, result2>>
    /\ UNCHANGED <<citeVars, driverVars, validateVars, parenVars>>

\* The positions the else branch marks after a line that starts no list.
MarkedAfterPlain(pos) == {pos + 1}

\* else: i += 1; processed_positions.add(i)
ScanPlain ==
    /\ Scanning
    /\ idx \notin processed_positions
    /\ ~IsListBegin(LineAt(cur_lines, idx))
    /\ idx' = idx + 1
    /\ processed_positions' = processed_positions \cup MarkedAfterPlain(idx)
    /\ UNCHANGED <<in_text, cur_lines, pass, pcFix, result1, result2>>
    /\ UNCHANGED <<citeVars, driverVars, validateVars, parenVars>>

AtListBegin ==
    /\ Scanning
    /\ idx \notin processed_positions
    /\ IsListBegin(LineAt(cur_lines, idx))

\* if end_idx == -1: i += 1; continue
BeginUnterminated ==
    /\ AtListBegin
    /\ FindEnd(cur_lines, idx) = -1
    /\ idx' = idx + 1
    /\ UNCHANGED <<in_text, cur_lines, processed_positions, pass, pcFix, result1, result2>>
    /\ UNCHANGED <<citeVars, driverVars, validateVars, parenVars>>

\* if not context_lines: i = end_idx + 1; the block is marked processed
BeginWithoutContext ==
    /\ AtListBegin
    /\ FindEnd(cur_lines, idx) # -1
    /\ ContextPositions(cur_lines, idx) = {}
    /\ idx' = FindEnd(cur_lines, idx) + 1
    /\ processed_positions' = processed_positions \cup (idx..FindEnd(cur_lines, idx))
    /\ UNCHANGED <<in_text, cur_lines, pass, pcFix, result1, result2>>
    /\ UNCHANGED <<citeVars, driverVars, validateVars, parenVars>>

\* if not items: i = end_idx + 1; the block is marked processed
BeginWithoutItems ==
    /\ AtListBegin
    /\ FindEnd(cur_lines, idx) # -1
    /\ ContextPositions(cur_lines, idx) # {}
    /\ ItemPositions(cur_lines, idx, FindEnd(cur_lines, idx)) = {}
    /\ idx' = FindEnd(cur_lines, idx) + 1
    /\ processed_positions' = processed_positions \cup (idx..FindEnd(cur_lines, idx))
    /\ UNCHANGED <<in_text, cur_lines, pass, pcFix, result1, result2>>
    /\ UNCHANGED <<citeVars, driverVars, validateVars, parenVars>>

\* Steps 5 to 8, then i = end_idx + 1 and
\* processed_positions.update(range(start_idx, end_idx + 2))
RewriteBlock ==
    /\ AtListBegin
    /\ FindEnd(cur_lines, idx) # -1
    /\ ContextPositions(cur_lines, idx) # {}
    /\ ItemPositions(cur_lines, idx, FindEnd(cur_lines, idx)) # {}
    /\ cur_lines' = FixBlock(cur_lines, idx, FindEnd(cur_lines, idx))
    /\ idx' = FindEnd(cur_lines, idx) + 1
    /\ processed_positions' = processed_positions \cup (idx..(FindEnd(cur_lines, idx) + 1))
    /\ UNCHANGED <<in_text, pass, pcFix, result1, result2>>
    /\ UNCHANGED <<citeVars, driverVars, validateVars, parenVars>>

\* return 0, "\n".join(lines)
Return ==
    /\ pcFix = "scan"
    /\ idx >= Len(cur_lines)
    /\ pcFix' = "returned"
    /\ IF pass = 1
       THEN result1' = JoinLines(cur_lines) /\ UNCHANGED result2
       ELSE result2' = JoinLines(cur_lines) /\ UNCHANGED result1
    /\ UNCHANGED <<in_text, cur_lines, idx, processed_positions, pass>>
    /\ UNCHANGED <<citeVars, driverVars, validateVars, parenVars>>

\* fix_lists called again, on the text the first call returned
Rerun ==
    /\ pcFix = "returned"
    /\ pass = 1
    /\ pass' = 2
    /\ in_text' = result1
    /\ cur_lines' = SplitLines(result1)
    /\ idx' = 0
    /\ processed_positions' = {}
    /\ pcFix' = "scan"
    /\ UNCHANGED <<result1, result2>>
    /\ UNCHANGED <<citeVars, driverVars, validateVars, parenVars>>

ListsNext ==
    \/ ScanSkip
    \/ ScanPlain
    \/ BeginUnterminated
    \/ BeginWithoutContext
    \/ BeginWithoutItems
    \/ RewriteBlock
    \/ Return
    \/ Rerun

SpecLists == ListsInit /\ [][ListsNext]_vars

-----------------------------------------------------------------------------
(* Properties of fix_lists *)

\* The lines of the text the call in progress was given, and of the text it
\* returned.
InputLines == SplitLines(in_text)
OutputLines == SplitLines(IF pass = 1 THEN result1 ELSE result2)

Returned == pcFix = "returned"

EndsIn(line, c) == RStripStr(line) # <<>> /\ LastOf(RStripStr(line)) = c

IsIgnoredItem(line) == Contains(line, Item) /\ Contains(line, Ignore)

\* An item line with text after the marker and without the ignore annotation.
IsPlainItem(line) ==
    /\ Contains(line, Item)
    /\ ~Contains(line, Ignore)
    /\ StripStr(Suffix(line, FindSym(line, Item) + 1)) # <<>>

\* The document holds one list: one begin marker, and after it one end marker
\* of its kind.  b is the line of the begin marker.
IsOnlyList(ls, b) ==
    /\ IsListBegin(ls[b])
    /\ \A n \in DOMAIN ls : IsListBegin(ls[n]) => n = b
    /\ \E e \in (b+1)..Len(ls) : Contains(ls[e], EndMarker(EnvType(ls[b])))

BlockItems(ls, b) == {n \in (b+1)..Len(ls) : Contains(ls[n], Item)}

\* The nearest non-empty line before line b, 0 if there is none.
PrecedingLine(ls, b) ==
    LET before == {n \in 1..(b-1) : StripStr(ls[n]) # <<>>}
    IN  IF before = {} THEN 0 ELSE CHOOSE n \in before : \A m \in before : m <= n

\* Every item with text and no ignore annotation ends in ';', the last item
\* of the list in '.'.
HasListPattern(ls, out, b) ==
    \A n \in BlockItems(ls, b) :
        IsPlainItem(ls[n]) =>
            EndsIn(out[n], IF \A m \in BlockItems(ls, b) : m <= n THEN "." ELSE ";")

\* C1: fix_lists applied to its own output returns that output:
\* fix_lists(fix_lists(D)) = fix_lists(D).
C1_Idempotent ==
    (Returned /\ pass = 2) => result2 = result1

\* C2: for a list, wherever it starts, whose nearest preceding non-empty line
\* ends in ':' and whose items hold no colon, fix_lists returns every
\* non-final item without the ignore annotation ending in ';' and the final
\* item ending in '.'.  Stated for documents of one list and for items with
\* text.
C2_ColonModePattern ==
    (Returned /\ pass = 1) =>
        \A b \in DOMAIN InputLines :
            ( /\ IsOnlyList(InputLines, b)
              /\ PrecedingLine(InputLines, b) # 0
              /\ EndsIn(InputLines[PrecedingLine(InputLines, b)], ":")
              /\ \A n \in BlockItems(InputLines, b) : ~Contains(InputLines[n], ":") )
            => HasListPattern(InputLines, OutputLines, b)

\* C3: for a list whose nearest preceding non-empty line ends with the word
\* "gde", fix_lists returns every non-final item ending in ';', the final item
\* ending in '.', and the preceding line as it was.  Stated for documents of
\* one list and for items with text and no ignore annotation.
C3_GdeModePattern ==
    (Returned /\ pass = 1) =>
        \A b \in DOMAIN InputLines :
            ( /\ IsOnlyList(InputLines, b)
              /\ PrecedingLine(InputLines, b) # 0
              /\ EndsWithGde(StripStr(InputLines[PrecedingLine(InputLines, b)])) )
            => /\ HasListPattern(InputLines, OutputLines, b)
               /\ OutputLines[PrecedingLine(InputLines, b)]
                      = InputLines[PrecedingLine(InputLines, b)]

\* C4: every line that holds an item marker and the ignore annotation is, at
\* every step of fix_lists and in the text it returns, the line of the input.
C4_IgnoredItemsUntouched ==
    \A n \in DOMAIN InputLines :
        IsIgnoredItem(InputLines[n]) =>
            /\ pcFix = "scan" => (n \in DOMAIN cur_lines /\ cur_lines[n] = InputLines[n])
            /\ Returned => (n \in DOMAIN OutputLines /\ OutputLines[n] = InputLines[n])

\* fix_lists has returned a text in which it rewrote an item of a list whose
\* preceding-context line is an ignored item, and that list holds an ignored
\* item too.
C4_Witness ==
    /\ Returned
    /\ pass = 1
    /\ \E n \in DOMAIN InputLines :
          /\ IsIgnoredItem(InputLines[n])
          /\ n + 1 \in DOMAIN InputLines
          /\ IsListBegin(InputLines[n + 1])
          /\ \E m, r \in (n+2)..Len(InputLines) :
                /\ IsIgnoredItem(InputLines[m])
                /\ IsPlainItem(InputLines[r])
                /\ OutputLines[r] # InputLines[r]
                /\ \A j \in (n+2)..(IF m > r THEN m ELSE r) :
                      Contains(InputLines[j], Item)

-----------------------------------------------------------------------------
(* lint_tex.py: main and apply_rules_to_file *)

\* The paths resolve_tex_paths can discover: sequences of path parts.
PathUniverse ==
    { <<"intro.tex">>, <<"links.tex">>, <<"a", "links.tex">>,
      <<"a", "zeta.tex">>, <<"z", "notes.tex">> }

\* The path parts in use, in the order Python compares strings.
SortedParts == <<"a", "intro.tex", "links.tex", "notes.tex", "z", "zeta.tex">>

PartRank(part) == IndexOf(SortedParts, part)

\* Path.name and Path.stem
PathName(p) == p[Len(p)]

PathStem(p) ==
    CASE PathName(p) = "intro.tex" -> "intro"
      [] PathName(p) = "links.tex" -> "links"
      [] PathName(p) = "notes.tex" -> "notes"
      [] PathName(p) = "zeta.tex" -> "zeta"

\* p < q for two paths: their parts compared as Python compares lists
RECURSIVE PathLess(_, _)
PathLess(p, q) ==
    IF q = <<>> THEN FALSE
    ELSE IF p = <<>> THEN TRUE
    ELSE IF Head(p) # Head(q) THEN PartRank(Head(p)) < PartRank(Head(q))
    ELSE PathLess(Tail(p), Tail(q))

\* key=lambda x: x, the paths alone.
SortKeyLess_PathOnly(p, q) == PathLess(p, q)

\* key=lambda x: (x.name == 'links.tex', x), compared as tuples
SortKeyLess(p, q) ==
    LET fp == PathName(p) = "links.tex"
        fq == PathName(q) = "links.tex"
    IN  IF fp # fq THEN fq ELSE PathLess(p, q)

\* sorted(set(tex_files), key=...)
RECURSIVE SortedFiles(_)
SortedFiles(S) ==
    IF S = {} THEN <<>>
    ELSE LET m == CHOOSE p \in S : \A q \in S \ {p} : SortKeyLess(p, q)
         IN  <<m>> \o SortedFiles(S \ {m})

\* Texts of the fragments the driver reads.
DriverCiteTexts == { <<>>, <<<<"x">>>>, <<<<"y", "x">>>> }

DriverBibTexts ==
    { <<BeginLine("9")>> \o BibBody(<<"x", "y">>, 1) \o <<EndLine>>,
      <<BeginLine("9")>> \o BibBody(<<"y", "x">>, 1) \o <<EndLine>> }

DriverInit ==
    /\ CiteStart
    /\ \E found \in SUBSET PathUniverse : tex_files = SortedFiles(found)
    /\ nextFile = 1
    /\ global_error = 0
    /\ exitStatus = -1
    /\ events = <<>>
    /\ outcomes = <<>>
    /\ ListsIdle
    /\ ValidateIdle
    /\ ParensIdle

\* The outcome of the file taken last, alone.
Max_LastOnly(a, b) == b

Max(a, b) == IF a >= b THEN a ELSE b

\* rules, the list main hands to apply_rules_to_file
RULES ==
    << "check_forbidden_words", "process_bibliography_order",
       "replace_typographic_symbols", "replace_typographic_dashes",
       "replace_space_before_citations", "replace_words_with_yo",
       "check_todo_comments", "fix_equations_before_text",
       "format_variables_enumerate", "fix_lists",
       "check_parentheses_comments", "validate_bibliography_entries" >>

\* The code each rule returns: check_forbidden_words returns errors_found,
\* every other rule returns 0.
RuleCode(rule, errors_found) ==
    IF rule = "check_forbidden_words" THEN errors_found ELSE 0

\* A loop that leaves at the first rule that reports an error.
LoopContinues_UntilError(code) == code = 0

\* for rule in rules: the loop has no break, whatever code a rule returned
LoopContinues(code) == TRUE

\* The rules the loop of apply_rules_to_file calls, in the order of the calls.
RECURSIVE RunRules(_, _, _)
RunRules(rules, n, errors_found) ==
    IF n > Len(rules) THEN <<>>
    ELSE <<rules[n]>>
           \o (IF LoopContinues(RuleCode(rules[n], errors_found))
               THEN RunRules(rules, n + 1, errors_found)
               ELSE <<>>)

\* apply_rules_to_file after a successful read: every rule has run, rule_code
\* is 1 if some rule returned a code other than 0 (file_error), changed tells
\* text != original_text, write_ok tells the write did not raise.
FileOutcome(path, rule_code, changed, write_ok) ==
    [path |-> path, read |-> TRUE, rules |-> TRUE, changed |-> changed,
     written |-> changed /\ write_ok,
     err |-> IF changed /\ ~write_ok THEN 1 ELSE rule_code,
     applied |-> RunRules(RULES, 1, rule_code),
     file_error |-> rule_code,
     write_attempted |-> changed]

\* apply_rules_to_file when the read raised: return 1 before the rules.
ReadFailure(path) ==
    [path |-> path, read |-> FALSE, rules |-> FALSE, changed |-> FALSE,
     written |-> FALSE, err |-> 1,
     applied |-> <<>>, file_error |-> 0, write_attempted |-> FALSE]

\* What the other rules and the write can do to a file: the code a rule
\* returned, whether a rule other than process_bibliography_order changed the
\* text, and whether the write succeeded.
RuleEffects ==
    { [rule_code |-> 0, other_changed |-> FALSE, write_ok |-> TRUE],
      [rule_code |-> 1, other_changed |-> FALSE, write_ok |-> TRUE],
      [rule_code |-> 0, other_changed |-> TRUE, write_ok |-> TRUE],
      [rule_code |-> 1, other_changed |-> TRUE, write_ok |-> FALSE] }

\* apply_rules_to_file when open/read raises: no rule runs, err = 1
ReadFails ==
    /\ exitStatus = -1
    /\ nextFile <= Len(tex_files)
    /\ events' = Append(events, [path |-> tex_files[nextFile], op |-> "read_failed"])
    /\ outcomes' = Append(outcomes, ReadFailure(tex_files[nextFile]))
    /\ global_error' = Max(global_error, ReadFailure(tex_files[nextFile]).err)
    /\ nextFile' = nextFile + 1
    /\ UNCHANGED <<citeVars, listVars, validateVars, parenVars, tex_files, exitStatus>>

\* apply_rules_to_file on a fragment that is not links.tex: the rule
\* process_bibliography_order hands the text to _process_text_file
ApplyRulesToFragment ==
    /\ exitStatus = -1
    /\ nextFile <= Len(tex_files)
    /\ PathStem(tex_files[nextFile]) # "links"
    /\ \E text \in DriverCiteTexts, eff \in RuleEffects :
          /\ ProcessTextFile(text, PathStem(tex_files[nextFile]))
          /\ argText' = text
          /\ outcomes' = Append(outcomes,
                 FileOutcome(tex_files[nextFile], eff.rule_code,
                             eff.other_changed \/ retText' # text, eff.write_ok))
    /\ argStem' = PathStem(tex_files[nextFile])
    /\ lastOp' = "collect"
    /\ nCollect' = nCollect + 1
    /\ events' = Append(events, [path |-> tex_files[nextFile], op |-> "collect"])
    /\ global_error' = Max(global_error, outcomes'[Len(outcomes')].err)
    /\ nextFile' = nextFile + 1
    /\ UNCHANGED <<nReorder, listVars, validateVars, parenVars, tex_files, exitStatus>>

\* apply_rules_to_file on links.tex: the rule process_bibliography_order
\* hands the text to _process_links_file
ApplyRulesToLinks ==
    /\ exitStatus = -1
    /\ nextFile <= Len(tex_files)
    /\ PathStem(tex_files[nextFile]) = "links"
    /\ \E text \in DriverBibTexts, eff \in RuleEffects :
          /\ ProcessLinksFile(text)
          /\ argText' = text
          /\ outcomes' = Append(outcomes,
                 FileOutcome(tex_files[nextFile], eff.rule_code,
                             eff.other_changed \/ retText' # text, eff.write_ok))
    /\ argStem' = "links"
    /\ lastOp' = "reorder"
    /\ nReorder' = nReorder + 1
    /\ events' = Append(events, [path |-> tex_files[nextFile], op |-> "reorder"])
    /\ global_error' = Max(global_error, outcomes'[Len(outcomes')].err)
    /\ nextFile' = nextFile + 1
    /\ UNCHANGED <<nCollect, listVars, validateVars, parenVars, tex_files, exitStatus>>

\* the end of main: sys.exit(1) if global_error else sys.exit(0); with no
\* .tex file found main exits 0 before the loop
Exit ==
    /\ exitStatus = -1
    /\ nextFile > Len(tex_files)
    /\ exitStatus' = IF global_error # 0 THEN 1 ELSE 0
    /\ UNCHANGED <<citeVars, listVars, validateVars, parenVars, tex_files, nextFile, global_error, events, outcomes>>

DriverNext == ReadFails \/ ApplyRulesToFragment \/ ApplyRulesToLinks \/ Exit

SpecDriver == DriverInit /\ [][DriverNext]_vars

IsBibPath(p) == PathStem(p) = "links"

\* C8 as stated: when the reorderer has run on a bibliography fragment, every
\* non-bibliography fragment of the run has been passed through the
\* collector before it.
C8_AllCollectedBeforeReorder ==
    \A i \in DOMAIN events :
        events[i].op = "reorder" =>
            \A n \in DOMAIN tex_files :
                ~IsBibPath(tex_files[n]) =>
                    \E j \in 1..(i-1) :
                        events[j] = [path |-> tex_files[n], op |-> "collect"]

\* C8, amended: when the reorderer has run on a bibliography fragment, the
\* driver has taken every non-bibliography fragment of the run before it,
\* and passed through the collector each one that it could read.
C8_FragmentsBeforeBibliography ==
    \A i \in DOMAIN events :
        events[i].op = "reorder" =>
            \A n \in DOMAIN tex_files :
                ~IsBibPath(tex_files[n]) =>
                    \E j \in 1..(i-1) :
                        /\ events[j].path = tex_files[n]
                        /\ events[j].op \in {"collect", "read_failed"}

\* Two bibliography fragments and two others were discovered, and the
\* reorderer has run on both bibliographies.
C8_Witness ==
    /\ Cardinality({n \in DOMAIN tex_files : IsBibPath(tex_files[n])}) = 2
    /\ Cardinality({n \in DOMAIN tex_files : ~IsBibPath(tex_files[n])}) >= 2
    /\ Cardinality({i \in DOMAIN events : events[i].op = "reorder"}) = 2
    /\ Cardinality({i \in DOMAIN events : events[i].op = "collect"}) >= 2

-----------------------------------------------------------------------------
(* Properties of the collector and the reorderer *)

CoordLeq(a, b) == a[1] < b[1] \/ (a[1] = b[1] /\ a[2] <= b[2])

\* The keys of the \bibitem lines of a text, in the order of the lines.
BibKeysOf(text) ==
    LET ls == SelectSeq(text, LAMBDA l : l.kind = "bibitem")
    IN  [i \in DOMAIN ls |-> ls[i].key]

EnvFound(text) ==
    (\E i \in DOMAIN text : text[i].kind = "begin")
    /\ (\E i \in DOMAIN text : text[i].kind = "end")

\* The keys that head an entry between the begin and the end marker.
EntryKeys(text) ==
    {text[i].key : i \in {j \in DOMAIN text :
        /\ text[j].kind = "bibitem"
        /\ \E b \in 1..(j-1) : text[b].kind = "begin"
        /\ \A e \in 1..(j-1) : text[e].kind # "end"}}

DistinctKeys(text) ==
    \A i, j \in DOMAIN BibKeysOf(text) :
        BibKeysOf(text)[i] = BibKeysOf(text)[j] => i = j

\* The raw items of a fragment in order of appearance, empty items dropped.
Occurrences(text) == SelectSeq(FlattenSeq(text), LAMBDA k : k # Blank)

FirstOrdinal(text, k) == IndexOf(Occurrences(text), k)

\* C5: after reorder on a bibliography of distinct entries, the output lists
\* first the entries whose keys are in the first-occurrence map, ascending by
\* their recorded (fragment_rank, position), then the other entries in their
\* original relative order.
C5_SortedByCoordinate ==
    [][ (lastOp' = "reorder" /\ EnvFound(argText') /\ DistinctKeys(argText')) =>
          LET out == BibKeysOf(retText')
              inp == BibKeysOf(argText')
              cited == SelectSeq(out, LAMBDA k : DictHas(FIRST_OCCURRENCE, k))
              rest == SelectSeq(inp, LAMBDA k : ~DictHas(FIRST_OCCURRENCE, k))
          IN  /\ out = cited \o rest
              /\ \A i, j \in DOMAIN cited :
                    i < j => CoordLeq(DictGet(FIRST_OCCURRENCE, cited[i]).coord,
                                      DictGet(FIRST_OCCURRENCE, cited[j]).coord)
      ]_vars

\* The fixed document sequence, as the fragments' filename stems.
DocumentSequence ==
    << "abstract", "intro", "analytic_part", "design_part", "tech_part",
       "experimental_part", "conclusion", "additions" >>

\* C6: the fragment_rank that collect records for a key is the index of the
\* fragment's stem in the document sequence when the stem belongs to it, and
\* a value above every real rank only when it does not.
C6_RankIsSequenceIndex ==
    [][ lastOp' = "collect" =>
          \A i \in DOMAIN FIRST_OCCURRENCE' :
              ~DictHas(FIRST_OCCURRENCE, FIRST_OCCURRENCE'[i].key) =>
                  IF argStem' \in Range(DocumentSequence)
                  THEN FIRST_OCCURRENCE'[i].coord[1] = IndexOf(DocumentSequence, argStem')
                  ELSE FIRST_OCCURRENCE'[i].coord[1] > Len(DocumentSequence) - 1
      ]_vars

\* C7: after every call of the reorderer the citation-key set and the
\* first-occurrence map are empty.
C7_ClearedAfterReorder ==
    lastOp = "reorder" => (ALL_CITATIONS = {} /\ FIRST_OCCURRENCE = <<>>)

\* C9: a collect step keeps the coordinate of every key already recorded, and
\* records for a key first seen in this fragment the fragment's rank and the
\* ordinal of the key's earliest occurrence in the fragment; no other key is
\* recorded.  From the empty map this gives, after any sequence of collects,
\* the coordinate of the earliest occurrence in processing order.
C9_FirstOccurrenceKept ==
    [][ lastOp' = "collect" =>
          \A k \in Keys :
              IF DictHas(FIRST_OCCURRENCE, k)
              THEN /\ DictHas(FIRST_OCCURRENCE', k)
                   /\ DictGet(FIRST_OCCURRENCE', k).coord
                          = DictGet(FIRST_OCCURRENCE, k).coord
              ELSE IF k \in Range(Occurrences(argText'))
              THEN /\ DictHas(FIRST_OCCURRENCE', k)
                   /\ DictGet(FIRST_OCCURRENCE', k).coord
                          = <<FileIndex(argStem'), FirstOrdinal(argText', k)>>
              ELSE ~DictHas(FIRST_OCCURRENCE', k)
      ]_vars

\* A key recorded by an earlier fragment occurs again, at another coordinate.
C9_Witness ==
    /\ lastOp = "collect"
    /\ nCollect = 2
    /\ \E k \in Range(Occurrences(argText)) :
          /\ DictHas(FIRST_OCCURRENCE, k)
          /\ DictGet(FIRST_OCCURRENCE, k).coord
                 # <<FileIndex(argStem), FirstOrdinal(argText, k)>>
    /\ \E k \in Range(Occurrences(argText)) :
          /\ FirstOrdinal(argText, k) > 0
          /\ DictGet(FIRST_OCCURRENCE, k).coord
                 = <<FileIndex(argStem), FirstOrdinal(argText, k)>>

WarningCount(kind, k) == CopiesIn([kind |-> kind, key |-> k], warnings)

\* C10: when reorder runs on a text whose environment is found, it logs
\* exactly one warning for every entry key that is not in the collected key
\* set, exactly one for every collected key that is no entry, and no other
\* cross-reference warning.
C10_CrossReferenceWarnings ==
    [][ (lastOp' = "reorder" /\ EnvFound(argText')) =>
          \A k \in Keys :
              /\ WarningCount("not_in_text", k)'
                    = IF k \in EntryKeys(argText') /\ k \notin ALL_CITATIONS
                      THEN 1 ELSE 0
              /\ WarningCount("not_in_links", k)'
                    = IF k \notin EntryKeys(argText') /\ k \in ALL_CITATIONS
                      THEN 1 ELSE 0
              /\ WarningCount("no_env", "")' = 0
      ]_vars

\* A reorder that warned both ways, on a bibliography with a repeated key.
C10_Witness ==
    /\ lastOp = "reorder"
    /\ EnvFound(argText)
    /\ \E k \in Keys : WarningCount("not_in_text", k) = 1
    /\ \E k \in Keys : WarningCount("not_in_links", k) = 1
    /\ ~DistinctKeys(argText)

\* The keys of a sequence at their first occurrence, in order.
RECURSIVE FirstOccurrencesOf(_)
FirstOccurrencesOf(ks) ==
    IF ks = <<>> THEN <<>>
    ELSE LET front == FirstOccurrencesOf(SubSeq(ks, 1, Len(ks) - 1))
         IN  IF ks[Len(ks)] \in Range(front) THEN front
             ELSE Append(front, ks[Len(ks)])

\* C11: the first-occurrence map lists the keys in the order in which they
\* were first cited across the fragments as processed (a collect appends the
\* keys new in its fragment, in their order of first occurrence there), and
\* the output of reorder on a found environment lists the cited entries in
\* that order; so fragments A citing x, y and B citing y, z turn the
\* bibliography z, x, y into x, y, z.
C11_FirstCitedOrder ==
    [][ /\ lastOp' = "collect" =>
              DictKeys(FIRST_OCCURRENCE')
                  = DictKeys(FIRST_OCCURRENCE)
                      \o SelectSeq(FirstOccurrencesOf(Occurrences(argText')),
                                   LAMBDA k : ~DictHas(FIRST_OCCURRENCE, k))
        /\ (lastOp' = "reorder" /\ EnvFound(argText')) =>
              SelectSeq(BibKeysOf(retText'), LAMBDA k : DictHas(FIRST_OCCURRENCE, k))
                  = SelectSeq(DictKeys(FIRST_OCCURRENCE),
                              LAMBDA k : k \in EntryKeys(argText'))
      ]_vars

\* After two collects, the second citing z after a key already recorded,
\* reorder has turned the bibliography z, x, y into x, y, z.
C11_Witness ==
    /\ lastOp = "reorder"
    /\ nCollect = 2
    /\ BibKeysOf(argText) = <<"z", "x", "y">>
    /\ BibKeysOf(retText) = <<"x", "y", "z">>

\* The entries of a text: every \bibitem line between the begin and the end
\* marker with the lines that follow it up to the next entry or the end
\* marker, empty lines left out; a bag, as two entries can be equal.
EntryStarts(text) ==
    {j \in DOMAIN text :
        /\ text[j].kind = "bibitem"
        /\ \E b \in 1..(j-1) : text[b].kind = "begin"
        /\ \A e \in 1..(j-1) : text[e].kind # "end"}

EntryAt(text, j) ==
    LET stops == {n \in (j+1)..Len(text) : text[n].kind \in {"bibitem", "badbibitem", "end"}}
        stop == IF stops = {} THEN Len(text) + 1
                ELSE CHOOSE n \in stops : \A m \in stops : n <= m
    IN  SelectSeq(SubSeq(text, j, stop - 1), LAMBDA l : l.kind # "empty")

RECURSIVE EntriesFrom(_, _)
EntriesFrom(text, j) ==
    IF j > Len(text) THEN EmptyBag
    ELSE (IF j \in EntryStarts(text) THEN SetToBag({EntryAt(text, j)}) ELSE EmptyBag)
         (+) EntriesFrom(text, j + 1)

EntryBag(text) == EntriesFrom(text, 1)

\* C12: the entries in the output of reorder are a permutation of the
\* entries in its input: each input entry is in the output exactly once, with
\* its text, and the output holds no other entry.
C12_EntriesPermuted ==
    [][ (lastOp' = "reorder" /\ EnvFound(argText')) =>
            EntryBag(retText') = EntryBag(argText') ]_vars

\* An item with text, no ignore annotation, ending in an abbreviation token
\* and its period.
EndsInAbbreviation(line) ==
    /\ IsPlainItem(line)
    /\ EndsIn(line, ".")
    /\ IsAbbreviation(LowerStr(RStripStr(line)))

\* C13: an item whose text ends in a recognized abbreviation token keeps
\* exactly its one trailing period in the text fix_lists returns: the line
\* still ends in that period, and no further mark follows it.
C13_AbbreviationKeepsPeriod ==
    (Returned /\ pass = 1) =>
        \A n \in DOMAIN InputLines :
            EndsInAbbreviation(InputLines[n]) =>
                LET o == RStripStr(OutputLines[n])
                IN  /\ Len(o) = Len(RStripStr(InputLines[n]))
                    /\ LastOf(o) = "."
                    /\ o[Len(o) - 1] # "."

-----------------------------------------------------------------------------
(* Properties of the driver *)

RECURSIVE WorstOf(_)
WorstOf(os) ==
    IF os = <<>> THEN 0
    ELSE IF Head(os).err >= WorstOf(Tail(os)) THEN Head(os).err ELSE WorstOf(Tail(os))

-----------------------------------------------------------------------------
(* bibitem_formatting.py: BibliographyValidator.validate_entry               *)
(* An entry text is a sequence of tokens; the text is the tokens joined by  *)
(* one space, a comma being attached to the token before it.                *)

TokBibitem == "\\bibitem{k}"
TokBibitemNoKey == "\\bibitem{}"
TokSur == "Ivanov"
TokIni == "A."
TokComma == ","
TokWord == "Steel"
TokMetal == "Metal"
TokER == "[Elektronnyj resurs]"
TokEtAl == "[i dr.]"
TokEtAlBad == "[idr.]"
TokSlash == "/"
TokDoubleSlash == "//"
TokDash == "---"
TokVenue == "Vestnik nauki."
TokShortVenue == "J."
TokYear == "2020."
TokUrlSci == "URL: \\url{https://arxiv.org/abs/1}"
TokUrlWeb == "URL: \\url{https://example.ru}"
TokUrlHead == "URL: \\url{https:"
TokDate == "(data obrashcheniya: 16.12.2025)"
TokVol == "Vol. 5"
TokNum == "No. 3"
TokPp == "pp. 5"
TokPagesOk == "S. 5"
TokDots == ".."
TokGap == ""
TokKeyword == "journal"

UrlTokens == {TokUrlSci, TokUrlWeb}

\* Tokens that hold "//", and tokens that hold "//" or "--".
DoubleSlashTokens == {TokDoubleSlash} \cup UrlTokens
SplitTokens == DoubleSlashTokens \cup {TokDash}

\* Tokens that hold a "/".
SlashTokens == {TokSlash} \cup DoubleSlashTokens

\* Tokens the pattern etal_source finds text in: "[i dr.]", "[idr.]", and
\* the word "Metal", which holds "etal".
EtalSourceTokens == {TokEtAl, TokEtAlBad, TokMetal}

\* Tokens the pattern etal_marker matches.
EtalMarkerTokens == {TokEtAl, TokEtAlBad}

\* A capital letter followed by lowercase letters.
CapitalWords == {TokSur, TokWord, TokMetal}

\* The position of the first token of s that is in S, 0 if there is none.
FirstPos(s, S) ==
    LET hits == {p \in DOMAIN s : s[p] \in S}
    IN  IF hits = {} THEN 0 ELSE CHOOSE p \in hits : \A q \in hits : p <= q

\* patterns["bibitem_pattern"].match(bibitem_text)
BibitemMatch(text) == text # <<>> /\ Head(text) = TokBibitem

\* bibitem_match.group(2).strip()
EntryContent(text) == Tail(text)

\* re.split(r"//|--", s, maxsplit=1)[0]: the text before the first "//" or
\* "--"; of a URL that holds the first "//", its head stays.
FirstPart(s) ==
    LET p == FirstPos(s, SplitTokens)
    IN  IF p = 0 THEN s
        ELSE SubSeq(s, 1, p - 1)
                 \o (IF s[p] \in UrlTokens THEN <<TokUrlHead>> ELSE <<>>)

\* len([a.strip() for a in re.split(author_separator, s) if a.strip()])
RECURSIVE CountPieces(_, _)
CountPieces(s, open) ==
    IF s = <<>> THEN (IF open THEN 1 ELSE 0)
    ELSE IF Head(s) = TokComma
    THEN (IF open THEN 1 ELSE 0) + CountPieces(Tail(s), FALSE)
    ELSE CountPieces(Tail(s), open \/ Head(s) # TokGap)

\* _count_authors
CountAuthors(authors_string) == CountPieces(authors_string, FALSE)

\* len(_extract_start_authors(entry_content))
StartAuthorsCount(entry_content) == CountPieces(FirstPart(entry_content), FALSE)

\* _has_etal_indication
HasEtalIndication(s) == \E p \in DOMAIN s : s[p] \in EtalSourceTokens

\* patterns["author_slash_section"].match(s): the first "/" of the text is a
\* single one, with text before it, and the text after it runs without a
\* "/" to a "//" or to the end.
SlashMatch(s) ==
    LET p == FirstPos(s, SlashTokens)
        rest == SubSeq(s, p + 1, Len(s))
        q == FirstPos(rest, SlashTokens)
    IN  /\ p > 1
        /\ s[p] = TokSlash
        /\ IF q = 0 THEN rest # <<>> ELSE rest[q] \in DoubleSlashTokens

\* slash_match.group(2).split("//")[0].split("--")[0].strip()
AuthorsPart(s) == FirstPart(SubSeq(s, FirstPos(s, SlashTokens) + 1, Len(s)))

\* _get_all_authors_count
GetAllAuthorsCount(s) ==
    IF SlashMatch(s) THEN CountAuthors(AuthorsPart(s))
    ELSE StartAuthorsCount(s)

\* patterns["electronic_marker"].search(entry_content)
HasElectronicMarker(s) == \E p \in DOMAIN s : s[p] = TokER

\* patterns["access_date"].search(entry_content)
HasAccessDate(s) == \E p \in DOMAIN s : s[p] = TokDate

\* Rule 1 of validate_author_rules: one warning for every "Surname, I."
CommaWarnings(s) ==
    LET hits == {p \in 1..(Len(s) - 2) :
                    /\ s[p] \in CapitalWords
                    /\ s[p + 1] = TokComma
                    /\ s[p + 2] = TokIni}
    IN  [n \in 1..Cardinality(hits) |-> "author_comma"]

\* The exemption of rule 2: the separator is let pass in an entry that
\* carries the electronic-resource marker.
SlashAllowed(s) == HasElectronicMarker(s)

\* Rule 2 of validate_author_rules: the placement of the authors
PlacementWarnings(s) ==
    LET author_count == StartAuthorsCount(s)
        authors_part == AuthorsPart(s)
    IN  IF author_count > 3 \/ HasEtalIndication(s)
        THEN IF ~SlashMatch(s) THEN <<"slash_required">>
             ELSE IF /\ ~HasEtalIndication(authors_part)
                     /\ GetAllAuthorsCount(authors_part) < author_count
             THEN <<"authors_missing">>
             ELSE <<>>
        ELSE IF SlashMatch(s) /\ ~SlashAllowed(s) THEN <<"slash_forbidden">>
        ELSE <<>>

\* validate_author_rules
ValidateAuthorRules(s) == CommaWarnings(s) \o PlacementWarnings(s)

\* url_match.group(1) if url_match else None: "sci", "web" or "none"
UrlOf(s) ==
    LET p == FirstPos(s, UrlTokens)
    IN  IF p = 0 THEN "none" ELSE IF s[p] = TokUrlSci THEN "sci" ELSE "web"

\* _is_scientific_repo(url)
IsScientificRepo(url) == url = "sci"

\* A date asked of every marked entry, dated or not.
DateRequired_DateNotRead(has_electronic_marker, has_access_date) ==
    has_electronic_marker

\* if has_electronic_marker and not has_access_date, for a URL that is of
\* no scientific repository
DateRequired(has_electronic_marker, has_access_date) ==
    has_electronic_marker /\ ~has_access_date

\* validate_electronic_rules
ValidateElectronicRules(s, url) ==
    LET has_electronic_marker == HasElectronicMarker(s)
        has_access_date == HasAccessDate(s)
    IN  IF IsScientificRepo(url)
        THEN (IF has_electronic_marker THEN <<"sci_marker">> ELSE <<>>)
             \o (IF has_access_date THEN <<"sci_date">> ELSE <<>>)
        ELSE (IF url # "none" /\ DateRequired(has_electronic_marker, has_access_date)
              THEN <<"date_required">> ELSE <<>>)
             \o (IF url # "none" /\ ~has_electronic_marker
                 THEN <<"marker_required">> ELSE <<>>)
             \o (IF has_access_date /\ ~has_electronic_marker
                 THEN <<"date_without_marker">> ELSE <<>>)
             \o (IF has_electronic_marker /\ url = "none"
                 THEN <<"marker_without_url">> ELSE <<>>)

\* The length of a token's text, and whether it holds three letters in a row.
TokLen(t) ==
    CASE t \in {TokGap} -> 0
      [] t \in {TokComma, TokSlash} -> 1
      [] t \in {TokIni, TokDoubleSlash, TokShortVenue, TokDots} -> 2
      [] t \in {TokPagesOk} -> 4
      [] t \in {TokWord, TokMetal, TokYear, TokNum, TokPp} -> 5
      [] OTHER -> 6

HasLetterRun(t) ==
    t \in {TokSur, TokWord, TokMetal, TokVenue, TokDate, TokVol, TokKeyword}
        \cup UrlTokens

\* len(" ".join(tokens)), a comma being attached to the token before it
RECURSIVE TextLen(_)
TextLen(s) ==
    IF s = <<>> THEN 0
    ELSE TokLen(Head(s))
         + (IF Len(s) > 1 /\ s[2] # TokComma THEN 1 ELSE 0)
         + TextLen(Tail(s))

\* Tokens that hold "--" or "[": the name of the publication ends there.
NameStopTokens == {TokDash, TokER, TokEtAl, TokEtAlBad}

\* _validate_publication_after_separator
PublicationWarnings(s) ==
    LET sep == FirstPos(s, DoubleSlashTokens)
        after == SubSeq(s, sep + 1, Len(s))
        stop == FirstPos(after, NameStopTokens)
        publication_name ==
            IF stop = 0 THEN after ELSE SubSeq(after, 1, stop - 1)
    IN  IF sep = 0
        THEN IF \E p \in DOMAIN s : s[p] = TokKeyword
             THEN <<"separator_required">> ELSE <<>>
        ELSE IF s[sep] \in UrlTokens THEN <<>>
        ELSE IF \A p \in DOMAIN publication_name : publication_name[p] = TokGap
        THEN <<"no_publication">>
        ELSE IF TextLen(publication_name) < 5 THEN <<"short_publication">>
        ELSE IF ~\E p \in DOMAIN publication_name : HasLetterRun(publication_name[p])
        THEN <<"no_letters">>
        ELSE <<>>

\* patterns["dash_pattern"].search: a "---" with text on both sides
HasDash(s) == \E p \in 2..(Len(s) - 1) : s[p] = TokDash

\* validate_structure_rules
ValidateStructureRules(s) ==
    (IF ~HasDash(s) THEN <<"dash">> ELSE <<>>)
    \o PublicationWarnings(s)
    \o (IF \E p \in DOMAIN s : s[p] = TokVol THEN <<"volume">> ELSE <<>>)
    \o (IF \E p \in DOMAIN s : s[p] = TokNum THEN <<"number">> ELSE <<>>)
    \o (IF (\E p \in DOMAIN s : s[p] \in {TokPp, TokPagesOk})
           /\ ~(\E p \in DOMAIN s : s[p] = TokPagesOk)
        THEN <<"pages">> ELSE <<>>)

\* validate_consistency_rules
ValidateConsistencyRules(s) ==
    (IF \E p \in DOMAIN s : s[p] = TokGap THEN <<"extra_spaces">> ELSE <<>>)
    \o (IF \E p \in DOMAIN s : s[p] = TokDots THEN <<"double_punctuation">> ELSE <<>>)
    \o [n \in 1..Cardinality({p \in DOMAIN s : s[p] = TokEtAlBad}) |-> "etal_format"]

\* "scientific" if _is_scientific_repo(url) else "electronic" if url else "print"
SourceType(url) ==
    IF IsScientificRepo(url) THEN "scientific"
    ELSE IF url # "none" THEN "electronic" ELSE "print"

\* Validity decided by the errors alone.
IsValid_ErrorsOnly(ws, es) == Len(es) = 0

\* result["is_valid"] = len(warnings) == 0 and len(errors) == 0
IsValid(ws, es) == Len(ws) = 0 /\ Len(es) = 0

\* The result when bibitem_pattern does not match.
UnmatchedResult ==
    [called |-> TRUE, matched |-> FALSE, is_valid |-> FALSE,
     warnings |-> <<>>, errors |-> <<"unrecognised">>, source_type |-> "unknown",
     author |-> <<>>, electronic |-> <<>>]

\* The result when bibitem_pattern matches: the warnings of the four rule
\* groups in the order of the calls; author and electronic keep apart what
\* the first two groups appended.
MatchedResult(text) ==
    LET entry_content == EntryContent(text)
        url == UrlOf(entry_content)
        author == ValidateAuthorRules(entry_content)
        electronic == ValidateElectronicRules(entry_content, url)
        ws == author \o electronic
                  \o ValidateStructureRules(entry_content)
                  \o ValidateConsistencyRules(entry_content)
    IN  [called |-> TRUE, matched |-> TRUE, is_valid |-> IsValid(ws, <<>>),
         warnings |-> ws, errors |-> <<>>, source_type |-> SourceType(url),
         author |-> author, electronic |-> electronic]

MaxAuthors == 4     \* authors of the lead segment and of the list after "/"

\* n authors "Ivanov A." separated by commas
RECURSIVE AuthorList(_)
AuthorList(n) ==
    IF n = 0 THEN <<>>
    ELSE IF n = 1 THEN <<TokSur, TokIni>>
    ELSE AuthorList(n - 1) \o <<TokComma, TokSur, TokIni>>

Leads ==
    {AuthorList(n) : n \in 1..MaxAuthors} \cup { <<TokSur, TokComma, TokIni>> }
Titles == { <<TokWord>>, <<TokMetal>>, <<TokWord, TokGap, TokWord>> }
Markers == { <<>>, <<TokER>> }
SlashSections ==
    { <<>>, <<TokSlash, TokSur, TokIni>>, <<TokSlash, TokSur, TokIni, TokEtAl>>,
      <<TokSlash>> \o AuthorList(MaxAuthors), <<TokSlash, TokSur, TokIni, TokEtAlBad>> }
Venues ==
    { <<>>, <<TokDoubleSlash, TokVenue>>, <<TokDoubleSlash>>,
      <<TokDoubleSlash, TokShortVenue>>, <<TokDoubleSlash, TokYear>>,
      <<TokKeyword>> }
Years == { <<>>, <<TokDash, TokYear>> }
Numbers ==
    { <<>>, <<TokDash, TokVol>>, <<TokDash, TokNum>>, <<TokDash, TokPp>>,
      <<TokDash, TokPagesOk>>, <<TokDots>> }
Urls == { <<>>, <<TokDash, TokUrlWeb>>, <<TokDash, TokUrlSci>>, <<TokUrlWeb>> }
Dates == { <<>>, <<TokDate>> }

\* The texts validate_entry is given: entries, and texts it cannot match.
EntryTexts ==
    { <<TokBibitem>> \o l \o t \o m \o sl \o v \o y \o nu \o u \o d :
        l \in Leads, t \in Titles, m \in Markers, sl \in SlashSections,
        v \in Venues, y \in Years, nu \in Numbers, u \in Urls, d \in Dates }
    \cup { <<TokBibitemNoKey, TokSur, TokIni, TokWord>>,
           <<TokSur, TokIni, TokWord>>, <<>> }

ValidateInit ==
    /\ CiteStart
    /\ DriverIdle
    /\ ListsIdle
    /\ ParensIdle
    /\ bibitem_text \in EntryTexts
    /\ result = [called |-> FALSE]
    /\ pcValidate = "called"

\* if not bibitem_match: one error, is_valid False, return
MatchFails ==
    /\ pcValidate = "called"
    /\ ~BibitemMatch(bibitem_text)
    /\ result' = UnmatchedResult
    /\ pcValidate' = "returned"
    /\ UNCHANGED <<bibitem_text, citeVars, driverVars, listVars, parenVars>>

\* the four rule groups, then is_valid
ValidateMatched ==
    /\ pcValidate = "called"
    /\ BibitemMatch(bibitem_text)
    /\ result' = MatchedResult(bibitem_text)
    /\ pcValidate' = "returned"
    /\ UNCHANGED <<bibitem_text, citeVars, driverVars, listVars, parenVars>>

ValidateNext == MatchFails \/ ValidateMatched

SpecValidate == ValidateInit /\ [][ValidateNext]_vars

-----------------------------------------------------------------------------
(* lint_tex.py: check_parentheses_comments                                 *)
(* A line is a sequence of the pieces the patterns of the function look    *)
(* for; a text is the sequence of its lines.                               *)

EqBegin == "\\begin{equation}"
EqEnd == "\\end{equation}"
ParenWord == "(word)"          \* a word in parentheses
MathParen == "$(word)$"        \* a word in parentheses inside inline math
PlainText == "text"

MaxParenLines == 4      \* lines of a text given to check_parentheses_comments

\* "preambula.tex" in str(filepath) or "title.tex" in ... or "links.tex" in ...
ExcludedPaths == {"preambula.tex", "title.tex", "links.tex"}
ParenPaths == {"intro.tex", "links.tex"}

\* ignore_pattern.search(line): the annotation ends the line
IgnorePatternFound(line) == line # <<>> /\ LastOf(line) = Ignore

\* equation_begin_pattern.search(line), equation_end_pattern.search(line)
EquationBeginFound(line) == Contains(line, EqBegin)
EquationEndFound(line) == Contains(line, EqEnd)

\* cleaned_line = math_pattern.sub("", line)
CleanedLine(line) == SelectSeq(line, LAMBDA t : t # MathParen)

\* parentheses_pattern finds a match that holds a letter
ParenthesesFound(cleaned_line) == Contains(cleaned_line, ParenWord)

ParenLineKinds ==
    { <<PlainText>>, <<PlainText, ParenWord>>, <<PlainText, ParenWord, Ignore>>,
      <<PlainText, MathParen>>, <<EqBegin>>, <<EqBegin, Ignore>>, <<EqEnd>>,
      <<EqEnd, Ignore>>, <<EqBegin, ParenWord, EqEnd>> }

ParenTexts == SeqsUpTo(ParenLineKinds, MaxParenLines)

ParensInit ==
    /\ CiteStart
    /\ DriverIdle
    /\ ListsIdle
    /\ ValidateIdle
    /\ paren_path \in ParenPaths
    /\ paren_lines \in ParenTexts
    /\ line_no = 0
    /\ in_equation = FALSE
    /\ paren_warnings = {}
    /\ pcParens = "scan"

\* The line the loop takes next: enumerate(lines, start=1)
NextParenLine == paren_lines[line_no + 1]

ParensScanning ==
    /\ pcParens = "scan"
    /\ paren_path \notin ExcludedPaths
    /\ line_no < Len(paren_lines)

\* the file is one of the three the rule leaves alone: return 0, text
ParensExcludedFile ==
    /\ pcParens = "scan"
    /\ paren_path \in ExcludedPaths
    /\ pcParens' = "returned"
    /\ UNCHANGED <<paren_path, paren_lines, line_no, in_equation, paren_warnings>>
    /\ UNCHANGED <<citeVars, driverVars, listVars, validateVars>>

\* 1. if ignore_pattern.search(line): continue
ParensLineIgnored ==
    /\ ParensScanning
    /\ IgnorePatternFound(NextParenLine)
    /\ line_no' = line_no + 1
    /\ UNCHANGED <<paren_path, paren_lines, in_equation, paren_warnings, pcParens>>
    /\ UNCHANGED <<citeVars, driverVars, listVars, validateVars>>

\* 2. if in_equation: the flag falls at an end marker; continue
ParensLineInEquation ==
    /\ ParensScanning
    /\ ~IgnorePatternFound(NextParenLine)
    /\ in_equation
    /\ in_equation' = ~EquationEndFound(NextParenLine)
    /\ line_no' = line_no + 1
    /\ UNCHANGED <<paren_path, paren_lines, paren_warnings, pcParens>>
    /\ UNCHANGED <<citeVars, driverVars, listVars, validateVars>>

\* if equation_begin_pattern.search(line): the flag rises, and falls again
\* if the end marker is on the same line; continue
ParensLineBeginsEquation ==
    /\ ParensScanning
    /\ ~IgnorePatternFound(NextParenLine)
    /\ ~in_equation
    /\ EquationBeginFound(NextParenLine)
    /\ in_equation' = ~EquationEndFound(NextParenLine)
    /\ line_no' = line_no + 1
    /\ UNCHANGED <<paren_path, paren_lines, paren_warnings, pcParens>>
    /\ UNCHANGED <<citeVars, driverVars, listVars, validateVars>>

\* 3. and 4.: math removed, a warning if a parenthesised word is left
ParensLineChecked ==
    /\ ParensScanning
    /\ ~IgnorePatternFound(NextParenLine)
    /\ ~in_equation
    /\ ~EquationBeginFound(NextParenLine)
    /\ paren_warnings' =
           IF ParenthesesFound(CleanedLine(NextParenLine))
           THEN paren_warnings \cup {line_no + 1}
           ELSE paren_warnings
    /\ line_no' = line_no + 1
    /\ UNCHANGED <<paren_path, paren_lines, in_equation, pcParens>>
    /\ UNCHANGED <<citeVars, driverVars, listVars, validateVars>>

\* return 0, text
ParensReturn ==
    /\ pcParens = "scan"
    /\ paren_path \notin ExcludedPaths
    /\ line_no = Len(paren_lines)
    /\ pcParens' = "returned"
    /\ UNCHANGED <<paren_path, paren_lines, line_no, in_equation, paren_warnings>>
    /\ UNCHANGED <<citeVars, driverVars, listVars, validateVars>>

ParensNext ==
    \/ ParensExcludedFile
    \/ ParensLineIgnored
    \/ ParensLineInEquation
    \/ ParensLineBeginsEquation
    \/ ParensLineChecked
    \/ ParensReturn

SpecParens == ParensInit /\ [][ParensNext]_vars

-----------------------------------------------------------------------------
(* Properties of validate_entry *)

ValidateReturned == pcValidate = "returned"

\* The text begins with an entry-start marker that holds a key.
HasEntryStart(text) == text # <<>> /\ text[1] = TokBibitem

CountOf(ws, kind) == Cardinality({n \in DOMAIN ws : ws[n] = kind})

\* C15: validate_entry returns is_valid true exactly when its warnings list
\* and its errors list are both empty; when the entry-start marker cannot be
\* matched the result has exactly one error, is_valid false, and no warning.
C15_ValidIffNoFindings ==
    ValidateReturned =>
        /\ result.is_valid <=> (result.warnings = <<>> /\ result.errors = <<>>)
        /\ ~HasEntryStart(bibitem_text) =>
              /\ Len(result.errors) = 1
              /\ ~result.is_valid
              /\ result.warnings = <<>>
        /\ HasEntryStart(bibitem_text) => result.errors = <<>>

\* validate_entry has returned for a text whose entry-start marker holds no
\* key: one error and no warning.
C15_Witness ==
    /\ ValidateReturned
    /\ bibitem_text # <<>>
    /\ bibitem_text[1] = TokBibitemNoKey
    /\ Len(result.errors) = 1
    /\ ~result.is_valid

\* The entry's URL kind, marker and date, read off its tokens.
EntryUrlKind(text) ==
    IF \E p \in DOMAIN text : text[p] \in UrlTokens
    THEN (IF text[FirstPos(text, UrlTokens)] = TokUrlSci THEN "scientific" ELSE "other")
    ELSE "none"

EntryHasMarker(text) == TokER \in Range(text)
EntryHasDate(text) == TokDate \in Range(text)

One(b) == IF b THEN 1 ELSE 0

\* The number of warnings of each kind the electronic-resource rules are to
\* emit for a URL kind, a marker and a date.
ExpectedElectronic(kind, marker, date) ==
    [ sci_marker |-> One(kind = "scientific" /\ marker),
      sci_date |-> One(kind = "scientific" /\ date),
      marker_required |-> One(kind = "other" /\ ~marker),
      date_required |-> One(kind = "other" /\ marker /\ ~date),
      date_without_marker |-> One(kind # "scientific" /\ date /\ ~marker),
      marker_without_url |-> One(kind = "none" /\ marker) ]

\* C16: for every URL kind, with and without the marker and the access date,
\* the electronic-resource rules emit exactly the warnings of the table: for
\* a scientific repository one per present marker and one per present date;
\* for another URL one if the marker is absent and one if it is present
\* without a date; for an entry of no scientific repository one for a date
\* without the marker and one for the marker without a URL.
C16_ElectronicWarnings ==
    (ValidateReturned /\ HasEntryStart(bibitem_text)) =>
        LET want == ExpectedElectronic(EntryUrlKind(bibitem_text),
                                       EntryHasMarker(bibitem_text),
                                       EntryHasDate(bibitem_text))
        IN  /\ \A k \in DOMAIN want : CountOf(result.electronic, k) = want[k]
            /\ \A n \in DOMAIN result.electronic : result.electronic[n] \in DOMAIN want

\* An entry with a URL of no scientific repository, the marker and no access
\* date was given exactly one electronic-rule warning.
C16_Witness ==
    /\ ValidateReturned
    /\ HasEntryStart(bibitem_text)
    /\ EntryUrlKind(bibitem_text) = "other"
    /\ EntryHasMarker(bibitem_text)
    /\ ~EntryHasDate(bibitem_text)
    /\ result.electronic = <<"date_required">>

\* C17: for an entry whose lead segment counts at most 3 authors and that
\* holds no "[i dr.]" marker, the author rules emit a warning whenever the
\* entry uses the "/" separator, whatever other markers it carries.
C17_SlashForbiddenWarned ==
    (ValidateReturned /\ HasEntryStart(bibitem_text)) =>
        LET entry_content == EntryContent(bibitem_text)
        IN  ( /\ StartAuthorsCount(entry_content) <= 3
              /\ \A p \in DOMAIN entry_content : entry_content[p] \notin EtalMarkerTokens
              /\ SlashMatch(entry_content) )
            => result.author # <<>>

-----------------------------------------------------------------------------
(* Properties of one rewritten list block: steps 5 to 8 of fix_lists *)

\* The items and the context line of the block RewriteBlock is about to
\* rewrite, and the mode it is rewritten in.
StepItems == ItemPositions(cur_lines, idx, FindEnd(cur_lines, idx))
StepContextIdx == NearestContextIdx(cur_lines, idx)
StepIsAfterGde == EndsWithGde(StripStr(LineAt(cur_lines, StepContextIdx)))
StepModeColon ==
    ModeColon(HasColonInItems(cur_lines, StepItems), LineAt(cur_lines, StepContextIdx))

\* The text of an item after its marker.
ItemBody(line) == LStripStr(Suffix(line, FindSym(line, Item) + 1))

\* The item holds a colon, and neither a command nor math nor the ignore
\* annotation.
HasFreeColon(line) ==
    /\ ~HasIgnore(line)
    /\ Contains(ItemBody(line), ":")
    /\ \A p \in DOMAIN ItemBody(line) :
          ItemBody(line)[p] \notin (CommandSymbols \cup {Backslash, "$"})

\* C18: when an item of the block holds an unescaped colon outside a markup
\* command, anywhere in its text and also as its last character, the block is
\* not rewritten in colon mode: the trailing colon of its context line is
\* replaced by a period, and that is the only edit of the context line.
C18_ColonInItemDisallowsColonMode ==
    [][ RewriteBlock =>
          LET ctx == LineAt(cur_lines, StepContextIdx)
              ctx1 == LineAt(cur_lines', StepContextIdx)
              body == StripStr(ctx)
          IN  ( /\ \E j \in StepItems : HasFreeColon(LineAt(cur_lines, j))
                /\ EndsIn(ctx, ":")
                /\ ~HasIgnore(ctx) )
              => StripStr(ctx1) = SubSeq(body, 1, Len(body) - 1) \o <<".">>
      ]_vars

\* The lead letter is left alone: the body starts with a command or a math
\* delimiter, or its first word holds more than one uppercase letter or is
\* one uppercase letter.
LeadLetterExempt(body) ==
    LET first_word == Prefix(body, FirstWordEnd(body))
        uppers == {p \in DOMAIN first_word : IsUpper(first_word[p])}
    IN  \/ body[1] \in CommandSymbols \cup {Backslash, "$"}
        \/ Cardinality(uppers) > 1
        \/ (Len(first_word) = 1 /\ Cardinality(uppers) = 1)

\* The lead letter of the item on line j after the rewrite is what the rule
\* of C19 asks for.
LeadLetterAsRuled(j) ==
    LET body == ItemBody(LineAt(cur_lines, j))
        body1 == ItemBody(LineAt(cur_lines', j))
        k == FirstAlphaIdx(body) + 1
    IN  /\ k \in DOMAIN body1
        /\ body1[k] = IF LeadLetterExempt(body) THEN body[k]
                      ELSE IF StepModeColon THEN ToLower(body[k])
                      ELSE ToUpper(body[k])

\* C19: for every item the block rewrite processes, the lead letter is left
\* as it was when the body starts with a command or a math delimiter or its
\* first word is an acronym or a single uppercase letter; otherwise the lead
\* letter is lowercase in colon mode and uppercase in the other two modes.
C19_LeadLetterCasing ==
    [][ RewriteBlock =>
          \A j \in StepItems :
              ( /\ IsPlainItem(LineAt(cur_lines, j))
                /\ FirstAlphaIdx(ItemBody(LineAt(cur_lines, j))) # -1 )
              => LeadLetterAsRuled(j)
      ]_vars

\* C20: an item whose text ends in '!' or '?' ends in that same character
\* after the block rewrite, in every mode and at every position of the list.
C20_ExclamationKept ==
    [][ RewriteBlock =>
          \A j \in StepItems :
              LET line == LineAt(cur_lines, j) IN
              ( /\ IsPlainItem(line)
                /\ LastOf(RStripStr(line)) \in {"!", "?"} )
              => EndsIn(LineAt(cur_lines', j), LastOf(RStripStr(line)))
      ]_vars

-----------------------------------------------------------------------------
(* Properties of the citation state *)

\* C28: in every reachable state of the citation state, after any
\* interleaving of collector and reorderer calls, the keys of FIRST_OCCURRENCE
\* are exactly the keys of ALL_CITATIONS.
C28_FirstOccurrenceKeysAreAllCitations ==
    Range(DictKeys(FIRST_OCCURRENCE)) = ALL_CITATIONS

\* The collector has recorded two keys after a reorderer call.
C28_Witness ==
    /\ lastOp = "collect"
    /\ nReorder = 1
    /\ Cardinality(ALL_CITATIONS) >= 2
    /\ Len(FIRST_OCCURRENCE) >= 2

\* The lines of a text before its first begin marker, and after its first
\* end marker.
BeforeEnvironment(text) == SubSeq(text, 1, FindLine(text, "begin") - 1)
AfterEnvironment(text) == SubSeq(text, FindLine(text, "end") + 1, Len(text))

\* C29: the reorderer returns the text before the begin marker of the
\* bibliography environment and the text after its end marker as they were
\* (the whole text when a marker is missing), and the collector returns the
\* fragment text as it was.
C29_TextAroundEnvironmentKept ==
    [][ /\ lastOp' = "collect" => retText' = argText'
        /\ (lastOp' = "reorder" /\ EnvFound(argText')) =>
              /\ EnvFound(retText')
              /\ BeforeEnvironment(retText') = BeforeEnvironment(argText')
              /\ AfterEnvironment(retText') = AfterEnvironment(argText')
        /\ (lastOp' = "reorder" /\ ~EnvFound(argText')) => retText' = argText'
      ]_vars

\* The reorderer has rewritten the environment of a text that has a line
\* before the begin marker and a line after the end marker.
C29_Witness ==
    /\ lastOp = "reorder"
    /\ retText # argText
    /\ BeforeEnvironment(argText) = <<TextLine("pre")>>
    /\ AfterEnvironment(argText) = <<TextLine("post")>>
    /\ BeforeEnvironment(retText) = <<TextLine("pre")>>
    /\ AfterEnvironment(retText) = <<TextLine("post")>>

-----------------------------------------------------------------------------
(* Properties of the scan of fix_lists and of the blocks it finds *)

\* C21: when the nearest preceding non-blank line of the block carries the
\* ignore annotation, the block rewrite leaves that line as it was and
\* rewrites the items in standard mode: every item with text ends in '.' and
\* has an uppercase lead letter (a lead letter exempt from casing is kept).
C21_IgnoredContextStandardMode ==
    [][ RewriteBlock =>
          LET ctx == LineAt(cur_lines, StepContextIdx) IN
          HasIgnore(ctx) =>
              /\ LineAt(cur_lines', StepContextIdx) = ctx
              /\ \A j \in StepItems :
                    LET body == ItemBody(LineAt(cur_lines, j))
                        body1 == ItemBody(LineAt(cur_lines', j))
                        k == FirstAlphaIdx(body) + 1
                    IN  IsPlainItem(LineAt(cur_lines, j)) =>
                            /\ EndsIn(LineAt(cur_lines', j), ".")
                            /\ k # 0 =>
                                  body1[k] = IF LeadLetterExempt(body) THEN body[k]
                                             ELSE ToUpper(body[k])
      ]_vars

\* A line after the begin marker at position i is exactly the end marker of
\* the list's kind.
HasOwnEnd(ls, i) ==
    \E j \in (i + 1)..(Len(ls) - 1) :
        StripStr(LineAt(ls, j)) = <<EndMarker(EnvType(StripStr(LineAt(ls, i))))>>

\* C22: at a begin marker that no later line closes with the end marker of
\* its kind, fix_lists rewrites no line, whatever end markers of other
\* environments follow.
C22_UnterminatedListUntouched ==
    [][ (AtListBegin /\ ~HasOwnEnd(cur_lines, idx)) => cur_lines' = cur_lines ]_vars

IsListEnd(line) == StripStr(line) \in {<<EndItemize>>, <<EndEnumerate>>}

\* The end marker that closes the list opened before position n, depth lists
\* deeper having been opened since; -1 if there is none.
RECURSIVE MatchingEndFrom(_, _, _)
MatchingEndFrom(ls, n, depth) ==
    IF n >= Len(ls) THEN -1
    ELSE IF IsListBegin(LineAt(ls, n)) THEN MatchingEndFrom(ls, n + 1, depth + 1)
    ELSE IF IsListEnd(LineAt(ls, n))
    THEN (IF depth = 0 THEN n ELSE MatchingEndFrom(ls, n + 1, depth - 1))
    ELSE MatchingEndFrom(ls, n + 1, depth)

\* C23: the end line fix_lists pairs with a begin marker is the end marker
\* of that same list, of its kind and at its nesting level, so the items
\* after a nested list of the same kind belong to the outer block.
C23_EndIsMatchingEnd ==
    [][ RewriteBlock =>
          LET matching == MatchingEndFrom(cur_lines, idx + 1, 0) IN
          ( /\ matching # -1
            /\ StripStr(LineAt(cur_lines, matching))
                  = <<EndMarker(EnvType(StripStr(LineAt(cur_lines, idx))))>> )
          => FindEnd(cur_lines, idx) = matching
      ]_vars

\* An item with text, without the ignore annotation, whose last character is
\* a letter: every block rewrite gives it a closing mark.
NeedsEnding(line) ==
    IsPlainItem(line) /\ IsAlpha(LastOf(RStripStr(line)))

\* C25: a list is processed whether its begin marker is on an even or on an
\* odd line of the document.  Stated for documents of one list that has a
\* preceding line: every item that needs a closing mark is rewritten.
C25_ListProcessedAtAnyLine ==
    (Returned /\ pass = 1) =>
        \A b \in DOMAIN InputLines :
            (IsOnlyList(InputLines, b) /\ PrecedingLine(InputLines, b) # 0)
            => \A n \in BlockItems(InputLines, b) :
                  NeedsEnding(InputLines[n]) => OutputLines[n] # InputLines[n]

\* C26: when a list was processed and the line after its end marker is the
\* begin marker of another list that has its end marker, the items of that
\* second list are rewritten too.
C26_ListAfterListProcessed ==
    (Returned /\ pass = 1) =>
        \A b \in 2..Len(InputLines) :
            ( /\ IsListBegin(InputLines[b])
              /\ IsListEnd(InputLines[b - 1])
              /\ HasOwnEnd(InputLines, b - 1)
              /\ \E n \in 1..(b - 1) :
                    NeedsEnding(InputLines[n]) /\ OutputLines[n] # InputLines[n] )
            => \A n \in (b + 1)..Len(InputLines) :
                  NeedsEnding(InputLines[n]) => OutputLines[n] # InputLines[n]

\* C27: for a text that holds no list-begin marker fix_lists returns the
\* text it was given, final line terminator included.
C27_TextWithoutListReturned ==
    (Returned /\ pass = 1 /\ \A n \in DOMAIN in_text : ~IsListBegin(in_text[n]))
        => result1 = in_text

-----------------------------------------------------------------------------
(* Properties of the rule pipeline *)

TimesApplied(applied, rule) ==
    Cardinality({n \in DOMAIN applied : applied[n] = rule})

\* C24: for every fragment that was read, every rule of the pipeline was
\* applied exactly once, process_bibliography_order before fix_lists and
\* fix_lists before validate_bibliography_entries, also when a rule reported
\* an error; and a changed text is written back also when a rule reported an
\* error.
C24_EveryRuleOnceInOrder ==
    \A i \in DOMAIN outcomes :
        LET o == outcomes[i] IN
        o.read =>
            /\ \A r \in Range(RULES) : TimesApplied(o.applied, r) = 1
            /\ Len(o.applied) = Len(RULES)
            /\ IndexOf(o.applied, "process_bibliography_order")
                  < IndexOf(o.applied, "fix_lists")
            /\ IndexOf(o.applied, "fix_lists")
                  < IndexOf(o.applied, "validate_bibliography_entries")
            /\ o.changed => o.write_attempted

\* A file whose first rule reported an error had every rule applied, and its
\* changed text was written back.
C24_Witness ==
    \E i \in DOMAIN outcomes :
        /\ outcomes[i].read
        /\ outcomes[i].file_error = 1
        /\ outcomes[i].applied = RULES
        /\ outcomes[i].changed
        /\ outcomes[i].written

-----------------------------------------------------------------------------
(* Properties of check_parentheses_comments *)

\* Whether line n + 1 lies inside an equation environment: an equation begin
\* marker on one of the first n lines has no end marker yet, whatever
\* annotation the marker lines carry.
RECURSIVE InsideEquationAfter(_, _)
InsideEquationAfter(ls, n) ==
    IF n = 0 THEN FALSE
    ELSE IF InsideEquationAfter(ls, n - 1)
    THEN ~Contains(ls[n], EqEnd)
    ELSE Contains(ls[n], EqBegin) /\ ~Contains(ls[n], EqEnd)

\* A parenthesised word outside inline math on a line with no equation
\* marker and without the ignore annotation.
HasFreeParenWord(line) ==
    /\ Contains(line, ParenWord)
    /\ ~Contains(line, Ignore)
    /\ ~Contains(line, EqBegin)
    /\ ~Contains(line, EqEnd)

\* C30: in check_parentheses_comments the flag in_equation is true exactly
\* for the lines between an equation begin marker and its end marker,
\* whatever annotations the marker lines carry; so, in a file the rule does
\* not leave alone, every line outside the equation environments that holds
\* a parenthesised word outside inline math and no ignore annotation has a
\* warning when the function returns.
C30_EquationFlagAndWarnings ==
    paren_path \notin ExcludedPaths =>
        /\ pcParens \in {"scan", "returned"} =>
              in_equation = InsideEquationAfter(paren_lines, line_no)
        /\ pcParens = "returned" =>
              \A n \in DOMAIN paren_lines :
                  ( /\ HasFreeParenWord(paren_lines[n])
                    /\ ~InsideEquationAfter(paren_lines, n - 1) )
                  => n \in paren_warnings

====
